---- MODULE Spec2Model ----
(***************************************************************************)
(* Model of the review orchestration of ai-cmds: the review-pr command     *)
(* (reviewPRCommand.run) and the local review workflow                     *)
(* (runLocalReviewChangesWorkflow).  One run is modelled from the          *)
(* validation of the configured concurrency ceilings to the final output.  *)
(***************************************************************************)
EXTENDS Integers, Sequences, FiniteSets, TLC

\* ------------------------------------------------------------------------
\* Bounds of the model
\* ------------------------------------------------------------------------
MaxReviewers == 2

\* longest list of compactor steps
MaxSteps == 3

MaxIssues == 1

\* ------------------------------------------------------------------------
\* Values
\* ------------------------------------------------------------------------
Providers == {"openai"}

\* a Model of a setup: its model handle is a provider object or a plain string id
ModelConfigs ==
  {[handle |-> "object", provider |-> p] : p \in Providers}
    \cup {[handle |-> "string", provider |-> "none"]}

\* the reviewer id 'previous-review-checker' (reviewer ids are index + 1 >= 1)
PreviousCheckerId == -1

IssueCategories == {"critical", "possible", "suggestion", "not-applicable-or-false-positive"}

\* a concurrency value: an integer n, a non-integer n + 1/2, or +Infinity
IntLimit(n) == [kind |-> "int", n |-> n]

FracLimit(n) == [kind |-> "frac", n |-> n]

Infinity == [kind |-> "inf", n |-> 0]

\* ReviewConcurrencyConfig | undefined
UndefinedConcurrency == [kind |-> "undefined", value |-> Infinity, entries |-> <<>>]

NumberConcurrency(v) == [kind |-> "number", value |-> v, entries |-> <<>>]

MapConcurrency(entries) == [kind |-> "map", value |-> Infinity, entries |-> entries]

\* IndividualReview | null, the value a review task resolves to
NullReview == [kind |-> "null", reviewerId |-> 0]

IndividualReview(id) == [kind |-> "review", reviewerId |-> id]

\* ------------------------------------------------------------------------
\* Sequence helpers
\* ------------------------------------------------------------------------
SeqRange(s) == {s[i] : i \in 1..Len(s)}

\* all sequences over S of length lo..hi
SeqsOf(S, lo, hi) == UNION {[1..n -> S] : n \in lo..hi}

\* ------------------------------------------------------------------------
\* Concurrency configuration
\* ------------------------------------------------------------------------
\* isValidConcurrencyLimit that lets zero through
isValidConcurrencyLimitAcceptsZero(value) ==
  value.kind = "inf" \/ (value.kind = "int" /\ value.n >= 0)

isValidConcurrencyLimit(value) ==
  value.kind = "inf" \/ (value.kind = "int" /\ value.n > 0)

\* TRUE iff validateConcurrencyPerProvider returns (no showErrorAndExit)
validateConcurrencyPerProvider(cpp) ==
  IF cpp.kind = "undefined" THEN TRUE
  ELSE IF cpp.kind = "number" THEN isValidConcurrencyLimit(cpp.value)
  ELSE \A i \in 1..Len(cpp.entries) : isValidConcurrencyLimit(cpp.entries[i].limit)

\* the showErrorAndExit calls validateConcurrencyPerProvider makes: the call
\* does not return, so the loop over the entries ends at the first invalid one
concurrencyErrors(cpp) ==
  IF cpp.kind = "undefined" THEN <<>>
  ELSE IF cpp.kind = "number"
       THEN IF isValidConcurrencyLimit(cpp.value) THEN <<>>
            ELSE <<[providerId |-> "", limit |-> cpp.value]>>
  ELSE LET invalid == {i \in 1..Len(cpp.entries) :
                         ~isValidConcurrencyLimit(cpp.entries[i].limit)}
       IN IF invalid = {} THEN <<>>
          ELSE <<cpp.entries[CHOOSE i \in invalid : \A j \in invalid : i <= j]>>

\* resolveProviderConcurrency that reads no per-provider entry
resolveProviderConcurrencyIgnoresEntries(cpp, providerId) ==
  IF cpp.kind = "number" THEN cpp.value ELSE Infinity

resolveProviderConcurrency(cpp, providerId) ==
  IF cpp.kind = "undefined" THEN Infinity
  ELSE IF cpp.kind = "number" THEN cpp.value
  ELSE IF \E i \in 1..Len(cpp.entries) : cpp.entries[i].providerId = providerId
       THEN LET i == CHOOSE j \in 1..Len(cpp.entries) : cpp.entries[j].providerId = providerId
            IN cpp.entries[i].limit
       ELSE Infinity

\* ------------------------------------------------------------------------
\* Fan-out: grouping the review tasks by provider (a Map in insertion order)
\* ------------------------------------------------------------------------
getModelProviderId(modelConfig) ==
  IF modelConfig.handle = "string" THEN "unknown" ELSE modelConfig.provider

MapHas(m, providerId) == \E i \in 1..Len(m) : m[i].providerId = providerId

MapGet(m, providerId) ==
  m[CHOOSE i \in 1..Len(m) : m[i].providerId = providerId]

\* reviewersByProvider.get(providerId)?.push(task) ?? reviewersByProvider.set(providerId, [task])
MapPush(m, providerId, task) ==
  IF MapHas(m, providerId)
  THEN [i \in 1..Len(m) |->
          IF m[i].providerId = providerId
          THEN [m[i] EXCEPT !.reviewers = Append(@, task)]
          ELSE m[i]]
  ELSE Append(m, [providerId |-> providerId, reviewers |-> <<task>>])

RECURSIVE groupReviewers(_, _, _)
groupReviewers(reviewers, index, m) ==
  IF index > Len(reviewers) THEN m
  ELSE groupReviewers(reviewers, index + 1,
         MapPush(m, getModelProviderId(reviewers[index]), index))

\* the previous-review-checker put into the first partition there is
addPreviousCheckToFirstPartition(m, shouldRun, validator) ==
  IF shouldRun
  THEN MapPush(m, IF m = <<>> THEN getModelProviderId(validator) ELSE m[1].providerId,
               PreviousCheckerId)
  ELSE m

\* the previous-review-checker added whatever the mode and the flag
addPreviousCheckAlways(m, shouldRun, validator) ==
  MapPush(m, getModelProviderId(validator), PreviousCheckerId)

\* the previous-review-checker runs on the validator's model
addPreviousCheck(m, shouldRun, validator) ==
  IF shouldRun
  THEN MapPush(m, getModelProviderId(validator), PreviousCheckerId)
  ELSE m

\* ------------------------------------------------------------------------
\* The async queue of one provider (createAsyncQueueWithMeta)
\* ------------------------------------------------------------------------
AtCapacity(q) == q.concurrency.kind # "inf" /\ Cardinality(q.running) >= q.concurrency.n

\* start waiting tasks, first added first, while the ceiling allows it
RECURSIVE processQueue(_)
processQueue(q) ==
  IF q.waiting = <<>> \/ AtCapacity(q) THEN q
  ELSE processQueue([q EXCEPT !.waiting = Tail(@),
                              !.running = @ \cup {Head(q.waiting)}])

\* createQueue that does not pass the resolved ceiling to the queue
createQueueWithoutCeiling(concurrency, tasks) ==
  processQueue([concurrency |-> Infinity, waiting |-> tasks, running |-> {},
                completions |-> <<>>, failures |-> <<>>])

\* createAsyncQueueWithMeta({concurrency}) followed by resultifyAdd of every task
createQueue(concurrency, tasks) ==
  processQueue([concurrency |-> concurrency, waiting |-> tasks, running |-> {},
                completions |-> <<>>, failures |-> <<>>])

\* queueComplete that settles the waiting tasks with the same value, unstarted
queueCompleteSettlesWaiting(q, id, value) ==
  [q EXCEPT !.running = @ \ {id},
            !.waiting = <<>>,
            !.completions = Append(@, [meta |-> id, value |-> value])
                              \o [i \in 1..Len(q.waiting) |->
                                    [meta |-> q.waiting[i], value |-> value]]]

\* queueComplete that does not start the next waiting task
queueCompleteStartsNothing(q, id, value) ==
  [q EXCEPT !.running = @ \ {id},
            !.completions = Append(@, [meta |-> id, value |-> value])]

\* the task function returned a value
queueComplete(q, id, value) ==
  processQueue([q EXCEPT !.running = @ \ {id},
                         !.completions = Append(@, [meta |-> id, value |-> value])])

\* queueFail that also cancels the tasks still waiting in the queue
queueFailCancelsWaiting(q, id) ==
  [q EXCEPT !.running = @ \ {id},
            !.waiting = <<>>,
            !.failures = Append(@, [meta |-> id])]

\* queueFail that puts the failed task back at the end of the queue
queueFailRequeues(q, id) ==
  processQueue([q EXCEPT !.running = @ \ {id},
                         !.waiting = Append(@, id),
                         !.failures = Append(@, [meta |-> id])])

\* the task function threw: resultifyAdd records the failure
queueFail(q, id) ==
  processQueue([q EXCEPT !.running = @ \ {id},
                         !.failures = Append(@, [meta |-> id])])

queueIsIdle(q) == q.waiting = <<>> /\ q.running = {}

IsReview(value) == value.kind # "null"

\* queue.completions.map((completion) => completion.value)
completionValues(q) == [i \in 1..Len(q.completions) |-> q.completions[i].value]

\* queue.failures.map((failure) => failure.meta.reviewerId)
failureIds(q) == [i \in 1..Len(q.failures) |-> q.failures[i].meta]

\* providerQueueResult that forgets the queue's failures
providerQueueResultWithoutFailures(command, providerId, q) ==
  [providerId |-> providerId,
   reviews |-> IF command = "review-pr"
               THEN SelectSeq(completionValues(q), IsReview)
               ELSE completionValues(q),
   failures |-> <<>>]

\* providerQueueResult that keeps the null a task resolved to
providerQueueResultKeepsNull(command, providerId, q) ==
  [providerId |-> providerId,
   reviews |-> completionValues(q),
   failures |-> failureIds(q)]

\* the ProviderQueueResult built by the onIdle().then callback
providerQueueResult(command, providerId, q) ==
  [providerId |-> providerId,
   reviews |-> IF command = "review-pr"
               THEN SelectSeq(completionValues(q), IsReview)
               ELSE completionValues(q),
   failures |-> failureIds(q)]

\* ------------------------------------------------------------------------
\* Collect: concatenation in queue order, then the sort
\* ------------------------------------------------------------------------
\* reviewerSortOrder that puts the previous-review-checker after every reviewer
reviewerSortOrderCheckerLast(reviewerId) ==
  IF reviewerId = PreviousCheckerId THEN MaxReviewers + 2 ELSE reviewerId + 1

reviewerSortOrder(reviewerId) ==
  IF reviewerId = PreviousCheckerId THEN 0 ELSE reviewerId + 1

\* compare function of review-pr
comparePR(a, b) == reviewerSortOrder(a.reviewerId) - reviewerSortOrder(b.reviewerId)

\* String(a).localeCompare(String(b)) for ids below 10 and 'previous-review-checker'
localeCompareIds(a, b) ==
  IF a = b THEN 0
  ELSE IF a = PreviousCheckerId THEN 1
  ELSE IF b = PreviousCheckerId THEN -1
  ELSE IF a < b THEN -1 ELSE 1

\* compare function of the local workflow; a non-number id counts as +Infinity
compareLocal(a, b) ==
  LET aIsNum == a.reviewerId # PreviousCheckerId
      bIsNum == b.reviewerId # PreviousCheckerId
  IN IF aIsNum /\ bIsNum /\ a.reviewerId # b.reviewerId
     THEN a.reviewerId - b.reviewerId
     ELSE IF aIsNum /\ ~bIsNum THEN -1
     ELSE IF ~aIsNum /\ bIsNum THEN 1
     ELSE localeCompareIds(a.reviewerId, b.reviewerId)

compareReviews(command, a, b) ==
  IF command = "review-pr" THEN comparePR(a, b) ELSE compareLocal(a, b)

\* insert x into the sorted sequence s after every element that is not greater
RECURSIVE insertSorted(_, _, _)
insertSorted(command, s, x) ==
  IF s = <<>> THEN <<x>>
  ELSE IF compareReviews(command, Head(s), x) <= 0
       THEN <<Head(s)>> \o insertSorted(command, Tail(s), x)
       ELSE <<x>> \o s

\* the collected list left in the order the queues delivered it
sortReviewsKeepsArrivalOrder(command, s) == s

\* Array.prototype.sort: stable
RECURSIVE sortReviews(_, _)
sortReviews(command, s) ==
  IF s = <<>> THEN <<>>
  ELSE insertSorted(command, sortReviews(command, SubSeq(s, 1, Len(s) - 1)), s[Len(s)])

\* successfulReviews.push(...queueResult.value.reviews) over the queue results
RECURSIVE concatReviews(_, _, _)
concatReviews(m, results, i) ==
  IF i > Len(m) THEN <<>>
  ELSE results[m[i].providerId].reviews \o concatReviews(m, results, i + 1)

\* ------------------------------------------------------------------------
\* Validator output
\* ------------------------------------------------------------------------
IsKeptCategory(category) == category # "not-applicable-or-false-positive"

\* normalizeValidatedIssues without the category filter
normalizeKeepsEveryIssue(issues) == issues

normalizeValidatedIssues(issues) == SelectSeq(issues, IsKeptCategory)

\* ------------------------------------------------------------------------
\* State
\* ------------------------------------------------------------------------
VARIABLES
  command,                \* "review-pr" | "review-code-changes"
  setupConfig,            \* [reviewers: Seq(Model), validator: Model]
  concurrencyPerProvider, \* config.concurrencyPerProvider
  isGitHubActions,        \* Boolean(process.env.GITHUB_ACTIONS)
  args,                   \* [test, skipPreviousCheck]
  diffOverBudget,         \* estimateTokenCount(prDiff) > MAX_DIFF_TOKENS
  prDiffBlank,            \* !prDiff.trim(): the filtered diff has no reviewable code
  pc,                     \* position of run()
  exitMessage,            \* the message of showErrorAndExit, "" if none
  configErrors,           \* the ceilings validateConcurrencyPerProvider reported
  reviewersByProvider,    \* Map providerId -> tasks, in insertion order
  queues,                 \* providerId -> the provider's async queue
  taskOutcome,            \* reviewerId -> how the task function ended
  queueResults,           \* providerId -> ProviderQueueResult, once its queue is idle
  successfulReviews,      \* the sorted list of retained reviews
  humanComments,          \* "undefined" | "empty" | "some"
  validatorCalls,         \* number of reviewValidator calls started
  validatorInput,         \* the reviews argument of reviewValidator
  validatorResult, \* result of the validator's model call: [status, issues]
  validatedReview,        \* [produced, issues]
  outputWritten,          \* the review file was written and handed to handleOutput
  totalUsage,             \* the TokenUsage calculateTotalUsage returned
  globalAbortSignal       \* the process-wide AbortSignal, and whether a model
                          \* call was outstanding when it fired

\* compactDiff(changedFiles, diff, diffOptions, maxDiffTokens, steps)
VARIABLES
  changedFiles,           \* argument: the file list
  diff,                   \* argument: the diff of these files
  maxDiffTokens,          \* argument: the token budget
  steps,                  \* argument: the compactor steps [filterFiles, ignoreAgentsMd]
  phase,                  \* "idle" | "called" | "loop" | "returned"
  stepIndex,              \* position of the for loop over steps
  currentFiles,
  currentDiff,
  currentTokens,
  ignoreAgentsMd,
  filterCalls,            \* the steps whose filterFiles was invoked, in order
  diffCalls,              \* the file lists getDiffForFiles was called with, in order
  result                  \* the returned [files, diff, ignoreAgentsMd]

\* formatValidatedReview(validatedReview, ...)
VARIABLES
  reviewIssues,           \* argument: validatedReview.issues
  markdowns               \* the issue sections of the markdown each call returned

\* calculateTotalUsage(allUsages), calculateReviewsUsage(reviews), sumUsage(usages)
VARIABLES
  usageList,              \* a list of TokenUsage
  summedUsages,           \* the list the three functions were last called with
  usageSums               \* what they returned for it

compactVars == <<changedFiles, diff, maxDiffTokens, steps, phase, stepIndex, currentFiles,
                 currentDiff, currentTokens, ignoreAgentsMd, filterCalls, diffCalls, result>>

formatVars == <<reviewIssues, markdowns>>

usageVars == <<usageList, summedUsages, usageSums>>

vars == <<command, setupConfig, concurrencyPerProvider, isGitHubActions, args,
          compactVars, formatVars, usageVars, totalUsage, diffOverBudget, prDiffBlank,
          globalAbortSignal, pc,
          exitMessage, configErrors, reviewersByProvider, queues, taskOutcome, queueResults,
          successfulReviews, humanComments, validatorCalls, validatorInput,
          validatorResult, validatedReview, outputWritten>>

configVars == <<command, setupConfig, concurrencyPerProvider, isGitHubActions, args,
                diffOverBudget, prDiffBlank>>

\* ------------------------------------------------------------------------
\* Token usage
\* ------------------------------------------------------------------------
\* reasoningTokens is optional: undefined
UndefinedTokens == -1

TokenUsage(prompt, completion, reasoning, model) ==
  [promptTokens |-> prompt, completionTokens |-> completion,
   totalTokens |-> prompt + completion, reasoningTokens |-> reasoning, model |-> model]

\* no usage was calculated
NoUsage == TokenUsage(0, 0, UndefinedTokens, "none")

\* x || 0
orZero(x) == IF x = UndefinedTokens THEN 0 ELSE x

\* x || undefined
orUndefined(x) == IF x = 0 THEN UndefinedTokens ELSE x

\* the usage the model call of a task reported; a call through a string model
\* handle reports no reasoning tokens
callUsage(id) ==
  IF id = PreviousCheckerId THEN TokenUsage(5, 2, UndefinedTokens, "checker")
  ELSE TokenUsage(10 * id, id,
                  IF setupConfig.reviewers[id].handle = "string"
                  THEN UndefinedTokens ELSE id, "reviewer")

\* review.usage of the review a task returned
reviewUsage(review) ==
  IF taskOutcome[review.reviewerId] = "review-zero-usage"
  THEN TokenUsage(0, 0, UndefinedTokens, "checker")
  ELSE callUsage(review.reviewerId)

\* successfulReviews.map((review) => review.usage)
reviewUsages(reviews) == [i \in 1..Len(reviews) |-> reviewUsage(reviews[i])]

\* createZeroTokenUsage(model)
createZeroTokenUsage(model) == TokenUsage(0, 0, 0, model)

\* validatedReview.usage: the usage of the validator's call, or the zero usage
\* of the review that is built without calling it
validatorUsage ==
  IF validatorCalls = 0
  THEN createZeroTokenUsage("validator-skipped")
  ELSE TokenUsage(20, 1 + Len(validatorResult.issues), 0, "validator")

\* the loop of calculateTotalUsage
RECURSIVE sumUsages(_)
sumUsages(allUsages) ==
  IF allUsages = <<>> THEN TokenUsage(0, 0, 0, "total")
  ELSE LET acc == sumUsages(SubSeq(allUsages, 1, Len(allUsages) - 1))
           usage == allUsages[Len(allUsages)]
       IN [promptTokens |-> acc.promptTokens + usage.promptTokens,
           completionTokens |-> acc.completionTokens + usage.completionTokens,
           totalTokens |-> acc.totalTokens + usage.totalTokens,
           reasoningTokens |-> acc.reasoningTokens + orZero(usage.reasoningTokens),
           model |-> "total"]

\* calculateTotalUsage that leaves out the last usage of the list
calculateTotalUsageWithoutLast(allUsages) ==
  LET acc == sumUsages(SubSeq(allUsages, 1, Len(allUsages) - 1))
  IN [acc EXCEPT !.reasoningTokens = orUndefined(@)]

\* calculateTotalUsage whose promptTokens is assigned, not accumulated
calculateTotalUsageOfLastPrompt(allUsages) ==
  LET acc == sumUsages(allUsages)
  IN [acc EXCEPT !.reasoningTokens = orUndefined(@),
                 !.promptTokens = IF allUsages = <<>> THEN 0
                                  ELSE allUsages[Len(allUsages)].promptTokens]

calculateTotalUsage(allUsages) ==
  LET acc == sumUsages(allUsages)
  IN [acc EXCEPT !.reasoningTokens = orUndefined(@)]

\* the signal of a controller nobody aborted
NotAborted == [aborted |-> FALSE, callsInFlight |-> FALSE]

EmptyMap == [p \in {} |-> 0]

NoResult == [returned |-> FALSE, files |-> <<>>, diff |-> {}, ignoreAgentsMd |-> FALSE]

\* no sum has been calculated
NoSums == [summed |-> FALSE, total |-> NoUsage, reviews |-> NoUsage, log |-> NoUsage]

\* no usage list is being summed
UsageIdle ==
  /\ usageList = <<>>
  /\ summedUsages = <<>>
  /\ usageSums = NoSums

\* compactDiff is not being called
\* no call of formatValidatedReview is modelled
FormatIdle ==
  /\ reviewIssues = <<>>
  /\ markdowns = <<>>

CompactIdle ==
  /\ changedFiles = <<>>
  /\ diff = {}
  /\ maxDiffTokens = 0
  /\ steps = <<>>
  /\ phase = "idle"
  /\ stepIndex = 0
  /\ currentFiles = <<>>
  /\ currentDiff = {}
  /\ currentTokens = 0
  /\ ignoreAgentsMd = FALSE
  /\ filterCalls = <<>>
  /\ diffCalls = <<>>
  /\ result = NoResult

ConcurrencyConfigs ==
  {UndefinedConcurrency,
   NumberConcurrency(IntLimit(1)),
   NumberConcurrency(IntLimit(2)),
   NumberConcurrency(IntLimit(0)),
   NumberConcurrency(IntLimit(-1)),
   NumberConcurrency(FracLimit(1)),
   MapConcurrency(<<[providerId |-> "openai", limit |-> IntLimit(1)]>>),
   MapConcurrency(<<[providerId |-> "openai", limit |-> IntLimit(1)],
                    [providerId |-> "anthropic", limit |-> FracLimit(1)]>>),
   MapConcurrency(<<[providerId |-> "openai", limit |-> IntLimit(0)],
                    [providerId |-> "unknown", limit |-> IntLimit(-1)]>>)}

mode == IF isGitHubActions /\ ~args.test THEN "gh-actions" ELSE "test"

shouldRunPreviousCheck ==
  command = "review-pr" /\ ~args.skipPreviousCheck /\ mode = "gh-actions"

TaskIds == (1..Len(setupConfig.reviewers)) \cup {PreviousCheckerId}

Init ==
  /\ command \in {"review-pr", "review-code-changes"}
  /\ setupConfig \in [reviewers : SeqsOf(ModelConfigs, 0, MaxReviewers),
                      validator : ModelConfigs]
  /\ concurrencyPerProvider \in ConcurrencyConfigs
  /\ isGitHubActions \in BOOLEAN
  /\ args \in [test : BOOLEAN, skipPreviousCheck : BOOLEAN]
  /\ ~(args.test /\ args.skipPreviousCheck)
  /\ ~isGitHubActions => ~args.test /\ ~args.skipPreviousCheck
  /\ command = "review-code-changes" =>
       ~isGitHubActions /\ ~args.test /\ ~args.skipPreviousCheck
  /\ diffOverBudget \in BOOLEAN
  /\ prDiffBlank \in BOOLEAN
  /\ ~(prDiffBlank /\ diffOverBudget)
  /\ CompactIdle
  /\ FormatIdle
  /\ UsageIdle
  /\ pc = "start"
  /\ exitMessage = ""
  /\ configErrors = <<>>
  /\ reviewersByProvider = <<>>
  /\ queues = EmptyMap
  /\ taskOutcome = [id \in TaskIds |-> "none"]
  /\ queueResults = EmptyMap
  /\ successfulReviews = <<>>
  /\ humanComments = "undefined"
  /\ validatorCalls = 0
  /\ validatorInput = <<>>
  /\ validatorResult = [status |-> "none", issues |-> <<>>]
  /\ validatedReview = [produced |-> FALSE, issues |-> <<>>]
  /\ outputWritten = FALSE
  /\ totalUsage = NoUsage
  /\ globalAbortSignal = NotAborted

\* ------------------------------------------------------------------------
\* Actions
\* ------------------------------------------------------------------------
\* validateConcurrencyPerProvider(config.concurrencyPerProvider)
ValidateConfig ==
  /\ pc = "start"
  /\ IF validateConcurrencyPerProvider(concurrencyPerProvider)
     THEN pc' = "diffCheck" /\ exitMessage' = exitMessage
     ELSE pc' = "exited" /\ exitMessage' = "Invalid codeReview.concurrencyPerProvider"
  /\ configErrors' = concurrencyErrors(concurrencyPerProvider)
  /\ UNCHANGED <<configVars, compactVars, formatVars, usageVars, globalAbortSignal, totalUsage, reviewersByProvider, queues, taskOutcome, queueResults,
                 successfulReviews, humanComments, validatorCalls, validatorInput,
                 validatorResult, validatedReview, outputWritten>>

\* the blank diff that is sent to the reviewers like any other
EmptyDiffGoesOn ==
  /\ pc = "diffCheck"
  /\ prDiffBlank
  /\ pc' = "dispatch"
  /\ UNCHANGED <<configVars, compactVars, formatVars, usageVars, globalAbortSignal, totalUsage, configErrors,
                 exitMessage, reviewersByProvider, queues,
                 taskOutcome, queueResults, successfulReviews, humanComments,
                 validatorCalls, validatorInput, validatorResult, validatedReview,
                 outputWritten>>

\* if (!prDiff.trim()): a review without issues is formatted with the usage of
\* no review and a zero validator usage, written and handed to handleOutput,
\* and run() returns
EmptyDiffReturns ==
  /\ pc = "diffCheck"
  /\ prDiffBlank
  /\ validatedReview' = [produced |-> TRUE, issues |-> <<>>]
  /\ totalUsage' = calculateTotalUsage(reviewUsages(<<>>)
                        \o <<createZeroTokenUsage("validator-skipped")>>)
  /\ outputWritten' = TRUE
  /\ pc' = "done"
  /\ UNCHANGED <<configVars, compactVars, formatVars, usageVars, globalAbortSignal, configErrors,
                 exitMessage, reviewersByProvider, queues,
                 taskOutcome, queueResults, successfulReviews, humanComments,
                 validatorCalls, validatorInput, validatorResult>>

\* the diff size check without the exit: an oversized diff goes on to the reviewers
CheckDiffSizeNeverStops(shouldContinue) ==
  /\ pc = "diffCheck"
  /\ ~prDiffBlank
  /\ pc' = "dispatch"
  /\ UNCHANGED <<configVars, compactVars, formatVars, usageVars, globalAbortSignal, totalUsage, configErrors,
                 exitMessage, reviewersByProvider, queues,
                 taskOutcome, queueResults, successfulReviews, humanComments,
                 validatorCalls, validatorInput, validatorResult, validatedReview,
                 outputWritten>>

\* if (diffTokens > MAX_DIFF_TOKENS): review-pr exits with an error, the local
\* workflow asks the operator and exits unless the answer is to continue
CheckDiffSize(shouldContinue) ==
  /\ pc = "diffCheck"
  /\ ~prDiffBlank
  /\ IF ~diffOverBudget
     THEN pc' = "dispatch" /\ UNCHANGED exitMessage
     ELSE IF command = "review-pr"
     THEN pc' = "exited" /\ exitMessage' = "PR diff exceeds the max allowed tokens"
     ELSE IF shouldContinue
     THEN pc' = "dispatch" /\ UNCHANGED exitMessage
     ELSE pc' = "exited" /\ UNCHANGED exitMessage
  /\ UNCHANGED <<configVars, compactVars, formatVars, usageVars, globalAbortSignal, totalUsage, configErrors,
                 reviewersByProvider, queues,
                 taskOutcome, queueResults, successfulReviews, humanComments,
                 validatorCalls, validatorInput, validatorResult, validatedReview,
                 outputWritten>>

\* Dispatch that starts the tasks of the first provider only: the queues of the
\* other providers hold their tasks back
DispatchFirstProviderOnly ==
  /\ pc = "dispatch"
  /\ LET m == addPreviousCheck(groupReviewers(setupConfig.reviewers, 1, <<>>),
                               shouldRunPreviousCheck, setupConfig.validator)
     IN /\ reviewersByProvider' = m
        /\ queues' = [p \in {m[i].providerId : i \in 1..Len(m)} |->
                        IF p = m[1].providerId
                        THEN createQueue(resolveProviderConcurrency(concurrencyPerProvider, p),
                                         MapGet(m, p).reviewers)
                        ELSE [concurrency |-> resolveProviderConcurrency(concurrencyPerProvider, p),
                              waiting |-> MapGet(m, p).reviewers, running |-> {},
                              completions |-> <<>>, failures |-> <<>>]]
  /\ pc' = "queues"
  /\ UNCHANGED <<configVars, compactVars, formatVars, usageVars, globalAbortSignal, totalUsage, configErrors,
                 exitMessage, taskOutcome, queueResults, successfulReviews,
                 humanComments, validatorCalls, validatorInput, validatorResult, validatedReview,
                 outputWritten>>

\* fan-out and dispatch: one queue per provider, every task added to its queue
Dispatch ==
  /\ pc = "dispatch"
  /\ LET m == addPreviousCheck(groupReviewers(setupConfig.reviewers, 1, <<>>),
                               shouldRunPreviousCheck, setupConfig.validator)
     IN /\ reviewersByProvider' = m
        /\ queues' = [p \in {m[i].providerId : i \in 1..Len(m)} |->
                        createQueue(resolveProviderConcurrency(concurrencyPerProvider, p),
                                    MapGet(m, p).reviewers)]
  /\ pc' = "queues"
  /\ UNCHANGED <<configVars, compactVars, formatVars, usageVars, globalAbortSignal, totalUsage, configErrors,
                 exitMessage, taskOutcome, queueResults, successfulReviews,
                 humanComments, validatorCalls, validatorInput, validatorResult, validatedReview,
                 outputWritten>>

\* how runPreviousReviewCheck can end without throwing; "review-zero-usage" is
\* a review whose totalUsage.totalTokens is undefined or 0
PreviousCheckOutcomes ==
  {"review", "review-zero-usage", "no-previous-review", "model-error", "no-unresolved-issues"}

\* the task function returned an IndividualReview, not null
ReturnsReview(outcome) == outcome \in {"review", "review-zero-usage"}

\* TaskCompletes with a runPreviousReviewCheck that returns the model's text as
\* a review also when it says that no issue is left
TaskCompletesKeepsSentinelText(p, id, outcome) ==
  /\ pc = "queues"
  /\ p \in DOMAIN queues
  /\ id \in queues[p].running
  /\ IF id = PreviousCheckerId
     THEN outcome \in PreviousCheckOutcomes
     ELSE outcome = "review"
  /\ queues' = [queues EXCEPT ![p] =
       queueComplete(@, id, IF ReturnsReview(outcome) \/ outcome = "no-unresolved-issues" THEN IndividualReview(id) ELSE NullReview)]
  /\ taskOutcome' = [taskOutcome EXCEPT ![id] = outcome]
  /\ UNCHANGED <<configVars, compactVars, formatVars, usageVars, globalAbortSignal, totalUsage, configErrors,
                 pc, exitMessage, reviewersByProvider, queueResults,
                 successfulReviews, humanComments, validatorCalls, validatorInput,
                 validatorResult, validatedReview, outputWritten>>

\* a running task function returns: runSingleReview returns its review,
\* runPreviousReviewCheck returns its review or null
TaskCompletes(p, id, outcome) ==
  /\ pc = "queues"
  /\ p \in DOMAIN queues
  /\ id \in queues[p].running
  /\ IF id = PreviousCheckerId
     THEN outcome \in PreviousCheckOutcomes
     ELSE outcome = "review"
  /\ queues' = [queues EXCEPT ![p] =
       queueComplete(@, id, IF ReturnsReview(outcome) THEN IndividualReview(id) ELSE NullReview)]
  /\ taskOutcome' = [taskOutcome EXCEPT ![id] = outcome]
  /\ UNCHANGED <<configVars, compactVars, formatVars, usageVars, globalAbortSignal, totalUsage, configErrors,
                 pc, exitMessage, reviewersByProvider, queueResults,
                 successfulReviews, humanComments, validatorCalls, validatorInput,
                 validatorResult, validatedReview, outputWritten>>

\* TaskFails whose error escapes the queue and rejects run()
TaskFailsRaises(p, id) ==
  /\ pc = "queues"
  /\ p \in DOMAIN queues
  /\ id \in queues[p].running
  /\ queues' = [queues EXCEPT ![p] = queueFail(@, id)]
  /\ taskOutcome' = [taskOutcome EXCEPT ![id] = "threw"]
  /\ pc' = "rejected"
  /\ UNCHANGED <<configVars, compactVars, formatVars, usageVars, globalAbortSignal, totalUsage, configErrors,
                 exitMessage, reviewersByProvider, queueResults,
                 successfulReviews, humanComments, validatorCalls, validatorInput,
                 validatorResult, validatedReview, outputWritten>>

\* a running task function throws: runSingleReview on a model error,
\* runPreviousReviewCheck when the previous review cannot be fetched
\* TaskFails that records the failure in the list of every provider queue
TaskFailsRecordedInEveryQueue(p, id) ==
  /\ pc = "queues"
  /\ p \in DOMAIN queues
  /\ id \in queues[p].running
  /\ queues' = [r \in DOMAIN queues |->
                  IF r = p THEN queueFail(queues[r], id)
                  ELSE [queues[r] EXCEPT !.failures = Append(@, [meta |-> id])]]
  /\ taskOutcome' = [taskOutcome EXCEPT ![id] = "threw"]
  /\ UNCHANGED <<configVars, compactVars, formatVars, usageVars, globalAbortSignal, totalUsage, configErrors,
                 pc, exitMessage, reviewersByProvider, queueResults,
                 successfulReviews, humanComments, validatorCalls, validatorInput,
                 validatorResult, validatedReview, outputWritten>>

TaskFails(p, id) ==
  /\ pc = "queues"
  /\ p \in DOMAIN queues
  /\ id \in queues[p].running
  /\ queues' = [queues EXCEPT ![p] = queueFail(@, id)]
  /\ taskOutcome' = [taskOutcome EXCEPT ![id] = "threw"]
  /\ UNCHANGED <<configVars, compactVars, formatVars, usageVars, globalAbortSignal, totalUsage, configErrors,
                 pc, exitMessage, reviewersByProvider, queueResults,
                 successfulReviews, humanComments, validatorCalls, validatorInput,
                 validatorResult, validatedReview, outputWritten>>

\* QueueIdle that does not wait for the queue to be idle
QueueIdleEarly(p) ==
  /\ pc = "queues"
  /\ p \in DOMAIN queues
  /\ p \notin DOMAIN queueResults
  /\ queueResults' = queueResults @@ (p :> providerQueueResult(command, p, queues[p]))
  /\ UNCHANGED <<configVars, compactVars, formatVars, usageVars, globalAbortSignal, totalUsage, configErrors,
                 pc, exitMessage, reviewersByProvider, queues, taskOutcome,
                 successfulReviews, humanComments, validatorCalls, validatorInput,
                 validatorResult, validatedReview, outputWritten>>

\* queue.onIdle().then(...): the result of one provider queue
QueueIdle(p) ==
  /\ pc = "queues"
  /\ p \in DOMAIN queues
  /\ p \notin DOMAIN queueResults
  /\ queueIsIdle(queues[p])
  /\ queueResults' = queueResults @@ (p :> providerQueueResult(command, p, queues[p]))
  /\ UNCHANGED <<configVars, compactVars, formatVars, usageVars, globalAbortSignal, totalUsage, configErrors,
                 pc, exitMessage, reviewersByProvider, queues, taskOutcome,
                 successfulReviews, humanComments, validatorCalls, validatorInput,
                 validatorResult, validatedReview, outputWritten>>

\* Collect without the gate: the validator is reached with an empty list too
CollectWithoutGate ==
  /\ pc = "queues"
  /\ DOMAIN queueResults = DOMAIN queues
  /\ LET sorted == sortReviews(command, concatReviews(reviewersByProvider, queueResults, 1))
     IN /\ successfulReviews' = sorted
        /\ IF command = "review-pr"
           THEN /\ pc' = "humanComments"
                /\ UNCHANGED <<exitMessage, validatorCalls, validatorInput>>
           ELSE /\ pc' = "validating"
                /\ validatorCalls' = validatorCalls + 1
                /\ validatorInput' = sorted
                /\ UNCHANGED exitMessage
  /\ UNCHANGED <<configVars, compactVars, formatVars, usageVars, globalAbortSignal, totalUsage, configErrors,
                 reviewersByProvider, queues, taskOutcome, queueResults,
                 humanComments, validatorResult, validatedReview, outputWritten>>

\* after Promise.allSettled: collect, sort, gate; the local workflow calls the
\* validator right after the gate, review-pr first fetches the human comments
Collect ==
  /\ pc = "queues"
  /\ DOMAIN queueResults = DOMAIN queues
  /\ LET sorted == sortReviews(command, concatReviews(reviewersByProvider, queueResults, 1))
     IN /\ successfulReviews' = sorted
        /\ IF Len(sorted) = 0
           THEN /\ pc' = "exited"
                /\ exitMessage' = "All reviewers failed - cannot proceed with review"
                /\ UNCHANGED <<validatorCalls, validatorInput>>
           ELSE IF command = "review-pr"
           THEN /\ pc' = "humanComments"
                /\ UNCHANGED <<exitMessage, validatorCalls, validatorInput>>
           ELSE /\ pc' = "validating"
                /\ validatorCalls' = validatorCalls + 1
                /\ validatorInput' = sorted
                /\ UNCHANGED exitMessage
  /\ UNCHANGED <<configVars, compactVars, formatVars, usageVars, globalAbortSignal, totalUsage, configErrors,
                 reviewersByProvider, queues, taskOutcome, queueResults,
                 humanComments, validatorResult, validatedReview, outputWritten>>

\* what github.getAllHumanPRComments settles with: a list of comments, empty
\* or not, or a rejection
FetchOutcomes == {"empty", "some", "rejected"}

\* a rejected fetch that is not caught: run() rejects before the validator
FetchHumanCommentsRethrows(outcome) ==
  /\ pc = "humanComments"
  /\ outcome \in FetchOutcomes
  /\ humanComments' = IF outcome = "rejected" THEN "undefined" ELSE outcome
  /\ IF outcome = "rejected"
     THEN pc' = "rejected" /\ UNCHANGED <<validatorCalls, validatorInput>>
     ELSE /\ pc' = "validating"
          /\ validatorCalls' = validatorCalls + 1
          /\ validatorInput' = successfulReviews
  /\ UNCHANGED <<configVars, compactVars, formatVars, usageVars, globalAbortSignal, totalUsage, configErrors,
                 exitMessage, reviewersByProvider, queues, taskOutcome,
                 queueResults, successfulReviews, validatorResult, validatedReview,
                 outputWritten>>

\* github.getAllHumanPRComments settles inside try/catch: a rejection is only
\* warned about and leaves humanComments undefined; then reviewValidator is
\* called
FetchHumanComments(outcome) ==
  /\ pc = "humanComments"
  /\ outcome \in FetchOutcomes
  /\ humanComments' = IF outcome = "rejected" THEN "undefined" ELSE outcome
  /\ pc' = "validating"
  /\ validatorCalls' = validatorCalls + 1
  /\ validatorInput' = successfulReviews
  /\ UNCHANGED <<configVars, compactVars, formatVars, usageVars, globalAbortSignal, totalUsage, configErrors,
                 exitMessage, reviewersByProvider, queues, taskOutcome,
                 queueResults, successfulReviews, validatorResult, validatedReview,
                 outputWritten>>

\* ValidatorFails that falls back to the unvalidated reviews
ValidatorFailsFallsBack ==
  /\ pc = "validating"
  /\ validatorResult' = [status |-> "error", issues |-> <<>>]
  /\ pc' = "output"
  /\ UNCHANGED <<configVars, compactVars, formatVars, usageVars, globalAbortSignal, totalUsage, configErrors,
                 exitMessage, reviewersByProvider, queues, taskOutcome,
                 queueResults, successfulReviews, humanComments, validatorCalls,
                 validatorInput, validatedReview, outputWritten>>

\* the validator's model call fails: reviewValidator throws, run() rejects
ValidatorFails ==
  /\ pc = "validating"
  /\ validatorResult' = [status |-> "error", issues |-> <<>>]
  /\ pc' = "rejected"
  /\ UNCHANGED <<configVars, compactVars, formatVars, usageVars, globalAbortSignal, totalUsage, configErrors,
                 exitMessage, reviewersByProvider, queues, taskOutcome,
                 queueResults, successfulReviews, humanComments, validatorCalls,
                 validatorInput, validatedReview, outputWritten>>

\* the validator's model call returns its structured output
ValidatorSucceeds(issues) ==
  /\ pc = "validating"
  /\ validatorResult' = [status |-> "value", issues |-> issues]
  /\ validatedReview' = [produced |-> TRUE, issues |-> normalizeValidatedIssues(issues)]
  /\ pc' = "output"
  /\ UNCHANGED <<configVars, compactVars, formatVars, usageVars, globalAbortSignal, totalUsage, configErrors,
                 exitMessage, reviewersByProvider, queues, taskOutcome,
                 queueResults, successfulReviews, humanComments, validatorCalls,
                 validatorInput, outputWritten>>

\* formatValidatedReview, writeFile, persistReviewRunLogs, handleOutput
WriteOutput ==
  /\ pc = "output"
  /\ outputWritten' = TRUE
  /\ pc' = "done"
  /\ totalUsage' = calculateTotalUsage(reviewUsages(successfulReviews)
                                        \o <<validatorUsage>>)
  /\ UNCHANGED <<configVars, compactVars, formatVars, usageVars, globalAbortSignal, configErrors,
                 exitMessage, reviewersByProvider, queues, taskOutcome,
                 queueResults, successfulReviews, humanComments, validatorCalls,
                 validatorInput, validatorResult, validatedReview>>

\* the validator's answers tried in a run: an issue that is kept and one that
\* is discarded
RunIssueCategories == {"critical", "not-applicable-or-false-positive"}

ProviderIds == Providers \cup {"unknown"}

Next ==
  \/ ValidateConfig
  \/ EmptyDiffReturns
  \/ \E shouldContinue \in BOOLEAN : CheckDiffSize(shouldContinue)
  \/ Dispatch
  \/ \E p \in ProviderIds, id \in TaskIds :
       \E outcome \in PreviousCheckOutcomes :
         TaskCompletes(p, id, outcome)
  \/ \E p \in ProviderIds, id \in TaskIds : TaskFails(p, id)
  \/ \E p \in ProviderIds : QueueIdle(p)
  \/ Collect
  \/ \E outcome \in FetchOutcomes : FetchHumanComments(outcome)
  \/ ValidatorFails
  \/ \E issues \in SeqsOf(RunIssueCategories, 0, MaxIssues) : ValidatorSucceeds(issues)
  \/ WriteOutput

Spec == Init /\ [][Next]_vars

\* ------------------------------------------------------------------------
\* the run up to the gate, with the scheduling of the event loop

\* a run whose configuration is valid and sets a ceiling (without one no task
\* is ever queued) and whose diff goes to the reviewers
InitToGate ==
  /\ Init
  /\ validateConcurrencyPerProvider(concurrencyPerProvider)
  /\ concurrencyPerProvider.kind # "undefined"
  /\ ~diffOverBudget
  /\ ~prDiffBlank

\* the function of a started task settles, one way or the other
TaskSettles(p, id) ==
  \/ \E outcome \in PreviousCheckOutcomes : TaskCompletes(p, id, outcome)
  \/ TaskFails(p, id)

AllTaskIds == (1..MaxReviewers) \cup {PreviousCheckerId}

NextToGate ==
  \/ ValidateConfig
  \/ \E shouldContinue \in BOOLEAN : CheckDiffSize(shouldContinue)
  \/ Dispatch
  \/ \E p \in ProviderIds, id \in AllTaskIds : TaskSettles(p, id)
  \/ \E p \in ProviderIds : QueueIdle(p)
  \/ Collect

\* the run does not stop while a step is left to take: run() goes on when its
\* await settles, a started model call settles, a resolved onIdle promise runs
\* its callback
FairToGate == WF_vars(NextToGate)

SpecToGate == InitToGate /\ [][NextToGate]_vars /\ FairToGate

\* ------------------------------------------------------------------------
\* the external interrupt

\* a reviewer's, the checker's or the validator's generateText call is
\* outstanding
ModelCallInFlight ==
  \/ pc = "queues" /\ \E p \in DOMAIN queues : queues[p].running # {}
  \/ pc = "validating"

\* the SIGINT handler: aborts the controller and removes itself, so it runs
\* once per process. No reviewer, checker or validator call was given the
\* signal: the handler changes nothing of the run.
handler(inFlight) == [aborted |-> TRUE, callsInFlight |-> inFlight]

\* the user interrupts the process while it is running
SIGINT ==
  /\ pc \notin {"done", "exited", "rejected"}
  /\ ~globalAbortSignal.aborted
  /\ globalAbortSignal' = handler(ModelCallInFlight)
  /\ UNCHANGED <<configVars, compactVars, formatVars, usageVars, totalUsage, configErrors, pc,
                 exitMessage, reviewersByProvider, queues, taskOutcome,
                 queueResults, successfulReviews, humanComments, validatorCalls,
                 validatorInput, validatorResult, validatedReview, outputWritten>>

NextInterrupted ==
  \/ Next
  \/ SIGINT

\* the run with an interrupt of the user at any moment
SpecInterrupted == Init /\ [][NextInterrupted]_vars

\* ------------------------------------------------------------------------
\* compactDiff
\* ------------------------------------------------------------------------
Files == {"src/a.ts", "src/a.test.ts", "docs/b.md"}

\* token estimate of each file's part of a diff, in thousands
FileTokens == [f \in Files |->
                 IF f = "src/a.ts" THEN 40 ELSE IF f = "docs/b.md" THEN 25 ELSE 5]

\* the filterFiles functions of the steps
Filters == {"removeTests", "sourceOnly", "keepAll", "dropAll", "addDocs", "docsForTests"}

IsTestFile(f) == f = "src/a.test.ts"

IsNotTestFile(f) == ~IsTestFile(f)

IsSourceFile(f) == f \in {"src/a.ts", "src/a.test.ts"}

\* step.filterFiles(files)
applyFilter(filter, files) ==
  CASE filter = "removeTests" -> SelectSeq(files, IsNotTestFile)
    [] filter = "sourceOnly" -> SelectSeq(files, IsSourceFile)
    [] filter = "keepAll" -> files
    [] filter = "dropAll" -> <<>>
    [] filter = "addDocs" ->
         IF "docs/b.md" \in SeqRange(files) THEN files ELSE files \o <<"docs/b.md">>
    [] filter = "docsForTests" ->
         IF "docs/b.md" \in SeqRange(files) THEN files
         ELSE [i \in 1..Len(files) |->
                 IF IsTestFile(files[i]) THEN "docs/b.md" ELSE files[i]]

\* a diff provider that returns the changes of the files left out
getDiffForFilesLeftOut(files) == Files \ SeqRange(files)

\* the diff text holds the changes of the files asked for, whatever their order
getDiffForFiles(files) == SeqRange(files)

RECURSIVE estimateTokenCount(_)
estimateTokenCount(d) ==
  IF d = {} THEN 0
  ELSE LET f == CHOOSE x \in d : TRUE
       IN FileTokens[f] + estimateTokenCount(d \ {f})

CompactorSteps == [filterFiles : Filters, ignoreAgentsMd : BOOLEAN]

\* the run's own state: compactDiff does not touch it
runVars == <<configVars, pc, exitMessage, configErrors, reviewersByProvider, queues,
             taskOutcome, queueResults, successfulReviews, humanComments, validatorCalls,
             validatorInput, validatorResult, validatedReview, outputWritten, totalUsage,
             globalAbortSignal>>

RunIdle ==
  /\ command = "review-pr"
  /\ setupConfig = [reviewers |-> <<>>,
                    validator |-> [handle |-> "string", provider |-> "none"]]
  /\ concurrencyPerProvider = UndefinedConcurrency
  /\ isGitHubActions = FALSE
  /\ args = [test |-> FALSE, skipPreviousCheck |-> FALSE]
  /\ diffOverBudget = FALSE
  /\ prDiffBlank = FALSE
  /\ pc = "start"
  /\ exitMessage = ""
  /\ configErrors = <<>>
  /\ reviewersByProvider = <<>>
  /\ queues = EmptyMap
  /\ taskOutcome = [id \in TaskIds |-> "none"]
  /\ queueResults = EmptyMap
  /\ successfulReviews = <<>>
  /\ humanComments = "undefined"
  /\ validatorCalls = 0
  /\ validatorInput = <<>>
  /\ validatorResult = [status |-> "none", issues |-> <<>>]
  /\ validatedReview = [produced |-> FALSE, issues |-> <<>>]
  /\ outputWritten = FALSE
  /\ totalUsage = NoUsage
  /\ globalAbortSignal = NotAborted

\* a call of compactDiff with the diff of the changed files
InitCompact ==
  /\ RunIdle
  /\ FormatIdle
  /\ UsageIdle
  /\ changedFiles \in {<<"src/a.ts", "src/a.test.ts", "docs/b.md">>,
                       <<"src/a.ts", "src/a.test.ts">>,
                       <<"src/a.test.ts", "docs/b.md">>}
  /\ diff = getDiffForFiles(changedFiles)
  /\ maxDiffTokens \in {30, 60}
  /\ steps \in SeqsOf(CompactorSteps, 0, MaxSteps)
  /\ phase = "called"
  /\ stepIndex = 0
  /\ currentFiles = <<>>
  /\ currentDiff = {}
  /\ currentTokens = 0
  /\ ignoreAgentsMd = FALSE
  /\ filterCalls = <<>>
  /\ diffCalls = <<>>
  /\ result = NoResult

\* a return that cuts the diff down to nothing when it is over the budget
returnValueFittedToBudget(files, d, flag) ==
  [returned |-> TRUE, files |-> files,
   diff |-> IF estimateTokenCount(d) <= maxDiffTokens THEN d ELSE {},
   ignoreAgentsMd |-> flag]

\* return { files, diff, ignoreAgentsMd }: the early return and the return
\* after the loop hand back the list and the diff they hold, as they are
returnValue(files, d, flag) ==
  [returned |-> TRUE, files |-> files, diff |-> d, ignoreAgentsMd |-> flag]

\* the function up to the loop, without the early return
CompactStartWithoutEarlyReturn ==
  /\ phase = "called"
  /\ currentTokens' = estimateTokenCount(diff)
  /\ currentFiles' = changedFiles
  /\ currentDiff' = diff
  /\ ignoreAgentsMd' = FALSE
  /\ stepIndex' = 1
  /\ IF Len(steps) = 0
     THEN /\ phase' = "returned"
          /\ result' = [returned |-> TRUE, files |-> changedFiles, diff |-> diff,
                        ignoreAgentsMd |-> FALSE]
     ELSE phase' = "loop" /\ result' = result
  /\ UNCHANGED <<runVars, formatVars, usageVars, changedFiles, diff, maxDiffTokens, steps, filterCalls, diffCalls>>

\* the function up to the loop: the estimate and the early return; with no
\* step the loop body never runs and the function returns what it was given
CompactStart ==
  /\ phase = "called"
  /\ currentTokens' = estimateTokenCount(diff)
  /\ IF estimateTokenCount(diff) <= maxDiffTokens
     THEN /\ phase' = "returned"
          /\ result' = returnValue(changedFiles, diff, FALSE)
          /\ UNCHANGED <<currentFiles, currentDiff, ignoreAgentsMd, stepIndex>>
     ELSE /\ currentFiles' = changedFiles
          /\ currentDiff' = diff
          /\ ignoreAgentsMd' = FALSE
          /\ stepIndex' = 1
          /\ IF Len(steps) = 0
             THEN /\ phase' = "returned"
                  /\ result' = returnValue(changedFiles, diff, FALSE)
             ELSE phase' = "loop" /\ result' = result
  /\ UNCHANGED <<runVars, formatVars, usageVars, changedFiles, diff, maxDiffTokens, steps, filterCalls, diffCalls>>

\* a loop that applies every non-empty filter result
isSkippedStepOnlyWhenEmpty(filteredFiles, files) == Len(filteredFiles) = 0

\* the two skip tests of the loop body: both compare lengths only
isSkippedStep(filteredFiles, files) ==
  Len(filteredFiles) = 0 \/ Len(filteredFiles) = Len(files)

\* the flag set by every step that asks for it, skipped or not
accumulateIgnoreAgentsMdOfEveryStep(flag, skipped, step) == flag \/ step.ignoreAgentsMd

\* if (step.ignoreAgentsMd) ignoreAgentsMd = true, which a skipped step does
\* not reach (continue)
accumulateIgnoreAgentsMd(flag, skipped, step) ==
  IF skipped THEN flag ELSE flag \/ step.ignoreAgentsMd

\* every filter given the list compactDiff was called with
filterArgumentOriginal == changedFiles

\* step.filterFiles(currentFiles): the filter is given the list the loop holds
filterArgument == currentFiles

\* the loop body without the break
CompactStepWithoutBreak ==
  /\ phase = "loop"
  /\ LET step == steps[stepIndex]
         filteredFiles == applyFilter(step.filterFiles, currentFiles)
         skipped == isSkippedStep(filteredFiles, currentFiles)
         nextFiles == IF skipped THEN currentFiles ELSE filteredFiles
         nextDiff == IF skipped THEN currentDiff ELSE getDiffForFiles(filteredFiles)
         nextTokens == IF skipped THEN currentTokens ELSE estimateTokenCount(nextDiff)
         nextFlag == accumulateIgnoreAgentsMd(ignoreAgentsMd, skipped, step)
         break == FALSE
     IN /\ filterCalls' = Append(filterCalls, stepIndex)
        /\ diffCalls' = IF skipped THEN diffCalls ELSE Append(diffCalls, filteredFiles)
        /\ currentFiles' = nextFiles
        /\ currentDiff' = nextDiff
        /\ currentTokens' = nextTokens
        /\ ignoreAgentsMd' = nextFlag
        /\ stepIndex' = IF break THEN stepIndex ELSE stepIndex + 1
        /\ IF break \/ stepIndex = Len(steps)
           THEN /\ phase' = "returned"
                /\ result' = [returned |-> TRUE, files |-> nextFiles, diff |-> nextDiff,
                              ignoreAgentsMd |-> nextFlag]
           ELSE phase' = "loop" /\ result' = result
  /\ UNCHANGED <<runVars, formatVars, usageVars, changedFiles, diff, maxDiffTokens, steps>>

\* one iteration of the loop over the steps; the function returns after the
\* break and after the last iteration
CompactStep ==
  /\ phase = "loop"
  /\ LET step == steps[stepIndex]
         filteredFiles == applyFilter(step.filterFiles, filterArgument)
         skipped == isSkippedStep(filteredFiles, currentFiles)
         nextFiles == IF skipped THEN currentFiles ELSE filteredFiles
         nextDiff == IF skipped THEN currentDiff ELSE getDiffForFiles(filteredFiles)
         nextTokens == IF skipped THEN currentTokens ELSE estimateTokenCount(nextDiff)
         nextFlag == accumulateIgnoreAgentsMd(ignoreAgentsMd, skipped, step)
         break == ~skipped /\ nextTokens <= maxDiffTokens
     IN /\ filterCalls' = Append(filterCalls, stepIndex)
        /\ diffCalls' = IF skipped THEN diffCalls ELSE Append(diffCalls, filteredFiles)
        /\ currentFiles' = nextFiles
        /\ currentDiff' = nextDiff
        /\ currentTokens' = nextTokens
        /\ ignoreAgentsMd' = nextFlag
        /\ stepIndex' = IF break THEN stepIndex ELSE stepIndex + 1
        /\ IF break \/ stepIndex = Len(steps)
           THEN /\ phase' = "returned"
                /\ result' = returnValue(nextFiles, nextDiff, nextFlag)
           ELSE phase' = "loop" /\ result' = result
  /\ UNCHANGED <<runVars, formatVars, usageVars, changedFiles, diff, maxDiffTokens, steps>>

NextCompact ==
  \/ CompactStart
  \/ CompactStep

SpecCompact == InitCompact /\ [][NextCompact]_vars

\* ------------------------------------------------------------------------
\* formatValidatedReview: the issue sections of the markdown

\* the longest issue list formatted, and the number of calls on one review
MaxFormatIssues == 3
MaxFormatCalls == 2

\* a ReviewIssue, as far as the sections read it
ReviewIssues == [category : IssueCategories, description : {"x", "y"}]

\* issues.filter((issue) => issue.category === category)
issuesOfCategory(issues, category) ==
  LET hasCategory(issue) == issue.category = category
  IN SelectSeq(issues, hasCategory)

\* a section whose ids count from zero
addIssuesFromZero(list, letter) ==
  [index \in 1..Len(list) |->
     [issueId |-> [letter |-> letter, number |-> index - 1], issue |-> list[index]]]

\* for (const [index, issue] of list.entries()) addIssue(issue, `X${index + 1}`)
\* (index is zero-based there and one-based here)
addIssues(list, letter) ==
  [index \in 1..Len(list) |->
     [issueId |-> [letter |-> letter, number |-> index], issue |-> list[index]]]

\* the "#### id" blocks in the order they are appended to reviewContent
formatValidatedReview(issues) ==
  LET criticalIssues == issuesOfCategory(issues, "critical")
      possibleProblems == issuesOfCategory(issues, "possible")
      suggestions == issuesOfCategory(issues, "suggestion")
  IN addIssues(criticalIssues, "C") \o addIssues(possibleProblems, "P")
       \o addIssues(suggestions, "S")

\* a ValidatedReview about to be formatted
InitFormat ==
  /\ RunIdle
  /\ CompactIdle
  /\ UsageIdle
  /\ reviewIssues \in SeqsOf(ReviewIssues, 0, MaxFormatIssues)
  /\ markdowns = <<>>

\* one call of formatValidatedReview on the review
FormatValidatedReview ==
  /\ Len(markdowns) < MaxFormatCalls
  /\ markdowns' = Append(markdowns, formatValidatedReview(reviewIssues))
  /\ UNCHANGED <<runVars, compactVars, usageVars, reviewIssues>>

NextFormat == FormatValidatedReview

SpecFormat == InitFormat /\ [][NextFormat]_vars

\* ------------------------------------------------------------------------
\* the sums of token usage

\* the longest list of usages summed
MaxUsages == 3

\* usages as model calls report them (reasoning tokens undefined, zero or
\* positive) and the zero usage
UsageSamples ==
  {createZeroTokenUsage("none"),
   TokenUsage(3, 1, UndefinedTokens, "a"),
   TokenUsage(5, 2, 0, "a"),
   TokenUsage(7, 4, 2, "b")}

\* [...new Set(reviews.map((review) => review.usage.model))]
RECURSIVE distinctModels(_)
distinctModels(usages) ==
  IF usages = <<>> THEN <<>>
  ELSE LET rest == distinctModels(SubSeq(usages, 1, Len(usages) - 1))
           model == usages[Len(usages)].model
       IN IF model \in SeqRange(rest) THEN rest ELSE Append(rest, model)

\* the loop of calculateReviewsUsage over review.usage
RECURSIVE sumReviewsUsage(_)
sumReviewsUsage(usages) ==
  IF usages = <<>> THEN TokenUsage(0, 0, 0, "none")
  ELSE LET acc == sumReviewsUsage(SubSeq(usages, 1, Len(usages) - 1))
           usage == usages[Len(usages)]
       IN [promptTokens |-> acc.promptTokens + orZero(usage.promptTokens),
           completionTokens |-> acc.completionTokens + orZero(usage.completionTokens),
           totalTokens |-> acc.totalTokens + orZero(usage.totalTokens),
           reasoningTokens |-> acc.reasoningTokens + orZero(usage.reasoningTokens),
           model |-> acc.model]

\* calculateReviewsUsage(reviews), on the usages of the reviews; the model is
\* the list of the distinct models that join(', ') writes out, or 'none'
calculateReviewsUsage(usages) ==
  LET acc == sumReviewsUsage(usages)
      models == distinctModels(usages)
  IN [acc EXCEPT !.reasoningTokens = orUndefined(@),
                 !.model = IF models = <<>> THEN <<"none">> ELSE models]

\* usage.reasoningTokens ?? 0
nullishZero(x) == IF x = UndefinedTokens THEN 0 ELSE x

\* usages.reduce(...) of sumUsage
RECURSIVE reduceUsages(_)
reduceUsages(usages) ==
  IF usages = <<>> THEN TokenUsage(0, 0, 0, "total")
  ELSE LET acc == reduceUsages(SubSeq(usages, 1, Len(usages) - 1))
           usage == usages[Len(usages)]
       IN [promptTokens |-> acc.promptTokens + orZero(usage.promptTokens),
           completionTokens |-> acc.completionTokens + orZero(usage.completionTokens),
           totalTokens |-> acc.totalTokens + orZero(usage.totalTokens),
           reasoningTokens |-> acc.reasoningTokens + nullishZero(usage.reasoningTokens),
           model |-> "total"]

\* sumUsage(usages) of review-logs.ts
sumUsage(usages) ==
  LET totals == reduceUsages(usages)
  IN [totals EXCEPT !.reasoningTokens = orUndefined(@)]

\* the three sums of one list
sumsOf(usages) ==
  [summed |-> TRUE,
   total |-> calculateTotalUsage(usages),
   reviews |-> calculateReviewsUsage(usages),
   log |-> sumUsage(usages)]

\* the list with two of its usages changing places
reordered(usages, i, j) ==
  [k \in 1..Len(usages) |-> IF k = i THEN usages[j] ELSE IF k = j THEN usages[i] ELSE usages[k]]

\* the list with a zero usage put in after the first k usages
withZeroUsage(usages, k) ==
  SubSeq(usages, 1, k) \o <<createZeroTokenUsage("none")>> \o SubSeq(usages, k + 1, Len(usages))

InitUsage ==
  /\ RunIdle
  /\ CompactIdle
  /\ FormatIdle
  /\ usageList \in SeqsOf(UsageSamples, 0, MaxUsages)
  /\ summedUsages = <<>>
  /\ usageSums = NoSums

\* the sums of the list as it is
SumUsages ==
  /\ ~usageSums.summed
  /\ summedUsages' = usageList
  /\ usageSums' = sumsOf(usageList)
  /\ UNCHANGED <<runVars, compactVars, formatVars, usageList>>

\* the sums of the same usages in another order; every order is reached by
\* exchanging two usages at a time
SumUsagesReordered(i, j) ==
  /\ usageSums.summed
  /\ i \in 1..Len(summedUsages)
  /\ j \in 1..Len(summedUsages)
  /\ summedUsages[i] # summedUsages[j]
  /\ summedUsages' = reordered(summedUsages, i, j)
  /\ usageSums' = sumsOf(summedUsages')
  /\ UNCHANGED <<runVars, compactVars, formatVars, usageList>>

\* the sums of the list with one zero usage added
SumUsagesWithZero(k) ==
  /\ usageSums.summed
  /\ Len(summedUsages) = Len(usageList)
  /\ k \in 0..Len(summedUsages)
  /\ summedUsages' = withZeroUsage(summedUsages, k)
  /\ usageSums' = sumsOf(summedUsages')
  /\ UNCHANGED <<runVars, compactVars, formatVars, usageList>>

NextUsage ==
  \/ SumUsages
  \/ \E i, j \in 1..(MaxUsages + 1) : SumUsagesReordered(i, j)
  \/ \E k \in 0..MaxUsages : SumUsagesWithZero(k)

SpecUsage == InitUsage /\ [][NextUsage]_vars


\* ------------------------------------------------------------------------
\* Derived notions used by the properties
\* ------------------------------------------------------------------------
AllReviewersFailedMessage == "All reviewers failed - cannot proceed with review"

\* run() is past Promise.allSettled and the collect/sort/gate block
Collected ==
  \/ pc \in {"humanComments", "validating", "output", "rejected"}
  \/ pc = "done" /\ ~prDiffBlank
  \/ pc = "exited" /\ exitMessage = AllReviewersFailedMessage

SubmittedTo(p) == SeqRange(MapGet(reviewersByProvider, p).reviewers)

Submitted == UNION {SubmittedTo(p) : p \in DOMAIN queues}

NoDuplicates(s) == \A i, j \in 1..Len(s) : i # j => s[i] # s[j]

\* ids of the success list and of the failure list of a ProviderQueueResult
SuccessIds(p) ==
  [i \in 1..Len(queueResults[p].reviews) |-> queueResults[p].reviews[i].reviewerId]

FailureIds(p) == queueResults[p].failures

\* ids of the queue's own completions and failures lists
CompletionIds(q) == [i \in 1..Len(q.completions) |-> q.completions[i].meta]

QueueFailureIds(q) == [i \in 1..Len(q.failures) |-> q.failures[i].meta]

TaskStatus(id) ==
  IF \E p \in DOMAIN queues : id \in SeqRange(queues[p].waiting) THEN "Queued"
  ELSE IF \E p \in DOMAIN queues : id \in queues[p].running THEN "Running"
  ELSE IF \E p \in DOMAIN queues : id \in SeqRange(CompletionIds(queues[p])) THEN "Completed"
  ELSE IF \E p \in DOMAIN queues : id \in SeqRange(QueueFailureIds(queues[p])) THEN "Failed"
  ELSE "Absent"

\* the tasks whose function returned a review
RetainedIds == {id \in TaskIds : ReturnsReview(taskOutcome[id])}

\* ------------------------------------------------------------------------
\* Properties
\* ------------------------------------------------------------------------

\* C1 (as stated): once a provider queue is idle, the success list and the
\* failure list of its result are disjoint and contain every task submitted
\* to that provider exactly once, the previous-review-checker included.
ResultListsCoverEverySubmittedTask ==
  \A p \in DOMAIN queueResults :
    /\ NoDuplicates(SuccessIds(p) \o FailureIds(p))
    /\ SeqRange(SuccessIds(p) \o FailureIds(p)) = SubmittedTo(p)

\* C1 (amended): the two lists are disjoint, hold only submitted tasks and hold
\* every numbered reviewer exactly once; the previous-review-checker is in the
\* success list iff it returned a review, in the failure list iff it threw, and
\* in neither list when it returned null.  The queue's own completions and
\* failures lists hold every submitted task exactly once.
ResultListsCoverEveryReviewer ==
  \A p \in DOMAIN queueResults :
    /\ NoDuplicates(SuccessIds(p) \o FailureIds(p))
    /\ SeqRange(SuccessIds(p) \o FailureIds(p)) \subseteq SubmittedTo(p)
    /\ \A id \in SubmittedTo(p) \ {PreviousCheckerId} :
         id \in SeqRange(SuccessIds(p) \o FailureIds(p))
    /\ PreviousCheckerId \in SubmittedTo(p) =>
         /\ PreviousCheckerId \in SeqRange(SuccessIds(p))
              <=> ReturnsReview(taskOutcome[PreviousCheckerId])
         /\ PreviousCheckerId \in SeqRange(FailureIds(p))
              <=> taskOutcome[PreviousCheckerId] = "threw"
    /\ NoDuplicates(CompletionIds(queues[p]) \o QueueFailureIds(queues[p]))
    /\ SeqRange(CompletionIds(queues[p]) \o QueueFailureIds(queues[p])) = SubmittedTo(p)

\* a provider's result with a success, a failure and a checker that returned null
CheckerMissingFromBothLists ==
  \E p \in DOMAIN queueResults :
    /\ PreviousCheckerId \in SubmittedTo(p)
    /\ taskOutcome[PreviousCheckerId] = "model-error"
    /\ Len(queueResults[p].reviews) >= 1
    /\ Len(queueResults[p].failures) >= 1

\* C2: in a provider partition whose configured ceiling is a finite number L, at
\* most L tasks are running in every state.
RunningWithinCeiling ==
  \A p \in DOMAIN queues :
    LET ceiling == resolveProviderConcurrency(concurrencyPerProvider, p)
    IN ceiling.kind = "int" => Cardinality(queues[p].running) <= ceiling.n

\* a partition with more tasks than its ceiling: L running, the rest waiting
CeilingReachedWithTasksWaiting ==
  \E p \in DOMAIN queues :
    LET ceiling == resolveProviderConcurrency(concurrencyPerProvider, p)
    IN /\ ceiling.kind = "int"
       /\ Cardinality(SubmittedTo(p)) > ceiling.n
       /\ Cardinality(queues[p].running) = ceiling.n
       /\ queues[p].waiting # <<>>

\* C3: a task that fails leaves every other task as it was (its outcome is
\* unchanged, a running task keeps running, a waiting task keeps waiting or is
\* started); no queue holds back a waiting task while it has capacity; and at
\* collect every submitted task has run to its own end.
FailureLeavesOtherTasksAlone ==
  \A id \in TaskIds :
    (taskOutcome[id] = "none" /\ taskOutcome'[id] = "threw") =>
      \A t \in TaskIds \ {id} :
        /\ taskOutcome'[t] = taskOutcome[t]
        /\ TaskStatus(t) = "Queued" => TaskStatus(t)' \in {"Queued", "Running"}
        /\ TaskStatus(t) # "Queued" => TaskStatus(t)' = TaskStatus(t)

NoTaskHeldBack ==
  /\ \A p \in DOMAIN queues : queues[p].waiting # <<>> => AtCapacity(queues[p])
  /\ Collected => \A id \in Submitted : TaskStatus(id) \in {"Completed", "Failed"}

FailureIsIsolated == [][FailureLeavesOtherTasksAlone]_vars /\ []NoTaskHeldBack

\* in a queue of ceiling 1 the first task failed and a later one returned its
\* review, and a task of another provider returned its review too
SiblingsCompletedAfterFailure ==
  \E p \in DOMAIN queues :
    /\ queues[p].concurrency = IntLimit(1)
    /\ Len(queues[p].failures) >= 1
    /\ Len(queues[p].completions) >= 1
    /\ \E p2 \in DOMAIN queues \ {p} : Len(queues[p2].completions) >= 1

\* C4: past the collect barrier (human comments, validator, output, return) every
\* provider queue is idle and every submitted task is settled; the validator is
\* never called before.
CollectIsBarrier ==
  (pc \notin {"start", "diffCheck", "dispatch", "queues"} \/ validatorCalls > 0) =>
    /\ \A p \in DOMAIN queues : queueIsIdle(queues[p])
    /\ \A id \in Submitted : taskOutcome[id] # "none"
    /\ (pc # "exited" \/ exitMessage = AllReviewersFailedMessage) =>
         DOMAIN queueResults = DOMAIN queues

\* the validator runs after two provider queues, one of them with a failure
ValidatorStartedAfterAllQueues ==
  /\ pc = "validating"
  /\ Cardinality(DOMAIN queues) >= 2
  /\ \E id \in Submitted : taskOutcome[id] = "threw"

\* C5: when no task result is retained after collect, the run exits with the
\* "All reviewers failed" error and the validator is never called; a validator
\* call implies a retained review.
GateStopsEmptyRun ==
  /\ (Collected /\ RetainedIds = {}) =>
       /\ pc = "exited"
       /\ validatorCalls = 0
       /\ validatorResult.status = "none"
       /\ ~validatedReview.produced
  /\ validatorCalls > 0 => RetainedIds # {}

\* the gate has stopped a run of several tasks, one of which returned null
GateStoppedRun ==
  /\ pc = "exited"
  /\ exitMessage = AllReviewersFailedMessage
  /\ Cardinality(Submitted) >= 2
  /\ \E id \in Submitted : taskOutcome[id] = "threw"

\* C6 (as stated): when every reviewer task has failed, the run exits at the gate
\* and the validator is never called, whatever the previous-review-checker did.
AllReviewersFailingStopsRun ==
  (Collected /\ \A id \in 1..Len(setupConfig.reviewers) : taskOutcome[id] = "threw") =>
    /\ pc = "exited"
    /\ validatorCalls = 0

\* C7: when the validator's model call fails, run() rejects: no ValidatedReview is
\* produced and nothing is written or posted; output is only ever written from a
\* ValidatedReview, built of the validator's value unless the diff was blank.
ValidatorFailureFailsRun ==
  /\ validatorResult.status = "error" =>
       /\ pc = "rejected"
       /\ ~validatedReview.produced
       /\ ~outputWritten
  /\ outputWritten => validatedReview.produced
  /\ (outputWritten /\ ~prDiffBlank) => validatorResult.status = "value"

\* the validator failed on the reviews of several tasks
ValidatorFailedOnReviews ==
  /\ pc = "rejected"
  /\ validatorResult.status = "error"
  /\ Len(validatorInput) >= 2

\* C8: a failed reviewer or previous-review-checker is excluded and never raised:
\* the validator is called with exactly the reviews of the tasks that returned
\* one, each once; run() rejects only on a validator error; and a run with a
\* retained review is not stopped at the gate.
PartialFailureIsExcluded ==
  /\ validatorCalls > 0 =>
       /\ NoDuplicates(validatorInput)
       /\ SeqRange(validatorInput) = {IndividualReview(id) : id \in RetainedIds}
  /\ pc = "rejected" => validatorResult.status = "error"
  /\ (Collected /\ RetainedIds # {}) =>
       /\ pc # "exited"
       /\ pc # "humanComments" => validatorCalls = 1

\* reviewer 1 failed, reviewer 2 returned: the validator got reviewer 2's review only
ValidatorGotOnlySecondReview ==
  /\ validatorCalls = 1
  /\ validatorInput = <<IndividualReview(2)>>
  /\ taskOutcome[1] = "threw"

\* C9: no issue of the category not-applicable-or-false-positive is in the
\* ValidatedReview, whatever issues the validator's model call returned.
DiscardNeverInValidatedReview ==
  validatedReview.produced =>
    \A i \in 1..Len(validatedReview.issues) :
      validatedReview.issues[i] # "not-applicable-or-false-positive"

\* the model returned a discarded issue and the ValidatedReview lacks it
DiscardedIssueDropped ==
  /\ validatedReview.produced
  /\ "not-applicable-or-false-positive" \in SeqRange(validatorResult.issues)
  /\ Len(validatedReview.issues) < Len(validatorResult.issues)

\* C10: after collect, successfulReviews holds the retained reviews with the
\* previous-review-checker first and the reviewers after it by ascending id;
\* [3, 1, previous-review-checker, 2] is sorted to [previous-review-checker, 1, 2, 3].
OrderedBefore(a, b) ==
  \/ a = PreviousCheckerId /\ b # PreviousCheckerId
  \/ a # PreviousCheckerId /\ b # PreviousCheckerId /\ a < b
  \/ a = b /\ localeCompareIds(a, b) <= 0

SuccessfulReviewsSorted ==
  /\ Collected =>
       /\ \A i, j \in 1..Len(successfulReviews) :
            i < j => OrderedBefore(successfulReviews[i].reviewerId,
                                   successfulReviews[j].reviewerId)
       /\ SeqRange(successfulReviews) = {IndividualReview(id) : id \in RetainedIds}
       /\ Len(successfulReviews) = Cardinality(RetainedIds)
  /\ (Collected /\ command = "review-pr") =>
       sortReviews(command,
         <<IndividualReview(3), IndividualReview(1),
           IndividualReview(PreviousCheckerId), IndividualReview(2)>>)
       = <<IndividualReview(PreviousCheckerId), IndividualReview(1),
           IndividualReview(2), IndividualReview(3)>>

\* the sort moved the previous-review-checker in front of two reviewers
CheckerSortedFirst ==
  /\ Collected
  /\ Len(successfulReviews) = 3
  /\ successfulReviews[1].reviewerId = PreviousCheckerId
  /\ concatReviews(reviewersByProvider, queueResults, 1) # successfulReviews

\* C11: the list handed to the validator is determined by the task outcomes
\* alone: it is the previous-review-checker's review, if retained, followed
\* by the retained reviewers' reviews by ascending id, whatever the order in
\* which the tasks completed and the queues became idle.
RECURSIVE reviewsOfOutcomes(_, _)
reviewsOfOutcomes(outcome, id) ==
  IF id > MaxReviewers + 1 THEN <<>>
  ELSE (IF id \in DOMAIN outcome /\ ReturnsReview(outcome[id])
        THEN <<IndividualReview(id)>> ELSE <<>>)
       \o reviewsOfOutcomes(outcome, IF id = PreviousCheckerId THEN 1 ELSE id + 1)

ValidatorInputDependsOnOutcomesOnly ==
  validatorCalls > 0 => validatorInput = reviewsOfOutcomes(taskOutcome, PreviousCheckerId)

\* the validator was called in a run whose second reviewer completed before
\* the first one in the same queue
ValidatorCalledAfterOutOfOrderCompletion ==
  /\ validatorCalls > 0
  /\ \E p \in DOMAIN queues :
       \E i, j \in 1..Len(queues[p].completions) :
         i < j /\ queues[p].completions[i].meta > queues[p].completions[j].meta
                /\ queues[p].completions[j].meta # PreviousCheckerId

\* the configured ceilings, and those that are neither a positive integer
\* nor the unbounded sentinel
ConfiguredCeilings ==
  IF concurrencyPerProvider.kind = "undefined" THEN {}
  ELSE IF concurrencyPerProvider.kind = "number"
       THEN {[providerId |-> "", limit |-> concurrencyPerProvider.value]}
  ELSE SeqRange(concurrencyPerProvider.entries)

MalformedCeilings ==
  {c \in ConfiguredCeilings :
     ~(c.limit = Infinity \/ (c.limit.kind = "int" /\ c.limit.n >= 1))}

ConfigErrorMessage == "Invalid codeReview.concurrencyPerProvider"

\* C12: a run whose configuration holds a ceiling that is neither a positive
\* integer nor the unbounded sentinel (0, -1, 1.5) never gets past
\* configuration validation: it ends there with the configuration error, no
\* queue is created and no task is ever queued, running, completed or failed.
MalformedCeilingStopsRunBeforeDispatch ==
  MalformedCeilings # {} =>
    /\ pc \in {"start", "exited"}
    /\ pc = "exited" => exitMessage = ConfigErrorMessage
    /\ queues = EmptyMap
    /\ reviewersByProvider = <<>>
    /\ \A id \in TaskIds : TaskStatus(id) = "Absent" /\ taskOutcome[id] = "none"

\* validation ended a run configured with a non-integer ceiling
NonIntegerCeilingRejected ==
  /\ pc = "exited"
  /\ exitMessage = ConfigErrorMessage
  /\ \E c \in MalformedCeilings : c.limit.kind = "frac"

\* C13 (as stated): when validation fails, an error has been raised for
\* every malformed ceiling of the configuration, not just for the first one.
EveryMalformedCeilingReported ==
  (pc = "exited" /\ exitMessage = ConfigErrorMessage) =>
    SeqRange(configErrors) = MalformedCeilings

\* C14 (as stated): a run whose setup has zero reviewer models ends with a
\* configuration error before any task, the previous-review-checker
\* included, is dispatched.
ZeroReviewersFailConfiguration ==
  Len(setupConfig.reviewers) = 0 =>
    /\ pc \in {"start", "exited"}
    /\ pc = "exited" => exitMessage = ConfigErrorMessage
    /\ queues = EmptyMap
    /\ \A id \in TaskIds : TaskStatus(id) = "Absent"

DiffTooLargeMessage == "PR diff exceeds the max allowed tokens"

\* run() is past the diff size check and has gone on to the reviewers
PastDiffCheck == pc \notin {"start", "diffCheck", "exited"} \/ queues # EmptyMap

\* C18 (as stated): a run whose diff is over the token budget halts with a
\* failure; reviewer tasks are never dispatched with such a diff.
OversizedDiffNeverDispatched ==
  diffOverBudget => ~PastDiffCheck

\* C18 (amended): review-pr halts with an error before dispatch when the diff
\* is over the token budget; only the local workflow, where the operator may
\* answer the prompt with "continue", goes on to the reviewers with such a diff.
OversizedDiffStopsReviewPR ==
  /\ (diffOverBudget /\ PastDiffCheck) => command = "review-code-changes"
  /\ (diffOverBudget /\ command = "review-pr" /\ pc = "exited") =>
       exitMessage \in {DiffTooLargeMessage, ConfigErrorMessage}
  /\ exitMessage = DiffTooLargeMessage =>
       diffOverBudget /\ pc = "exited" /\ queues = EmptyMap

\* review-pr ended at the diff size check
ReviewPRStoppedOnOversizedDiff ==
  /\ command = "review-pr"
  /\ diffOverBudget
  /\ pc = "exited"
  /\ exitMessage = DiffTooLargeMessage

\* C15: a call of compactDiff whose input diff is within the budget returns
\* the input files and diff with ignoreAgentsMd false; no step's filterFiles is
\* invoked and getDiffForFiles is not called.
WithinBudgetReturnsInputUnchanged ==
  (phase \in {"loop", "returned"} /\ estimateTokenCount(diff) <= maxDiffTokens) =>
    /\ phase = "returned"
    /\ result = [returned |-> TRUE, files |-> changedFiles, diff |-> diff,
                 ignoreAgentsMd |-> FALSE]
    /\ filterCalls = <<>>
    /\ diffCalls = <<>>

\* the call returned at once although its first step would have removed a
\* file and set the flag
ReturnedWithoutTryingApplicableStep ==
  /\ phase = "returned"
  /\ estimateTokenCount(diff) <= maxDiffTokens
  /\ Len(steps) >= 1
  /\ steps[1].ignoreAgentsMd
  /\ Len(applyFilter(steps[1].filterFiles, changedFiles)) \in 1..(Len(changedFiles) - 1)

\* the step about to be tried returns an empty list or the list it was given
StepReturnsEmptyOrUnchanged ==
  /\ phase = "loop"
  /\ applyFilter(steps[stepIndex].filterFiles, currentFiles) \in {<<>>, currentFiles}

SkipLeavesStateUntouched ==
  StepReturnsEmptyOrUnchanged =>
    /\ currentFiles' = currentFiles
    /\ currentDiff' = currentDiff
    /\ currentTokens' = currentTokens
    /\ ignoreAgentsMd' = ignoreAgentsMd
    /\ diffCalls' = diffCalls
    /\ filterCalls' = Append(filterCalls, stepIndex)
    /\ IF stepIndex < Len(steps)
       THEN phase' = "loop" /\ stepIndex' = stepIndex + 1
       ELSE /\ phase' = "returned"
            /\ result' = [returned |-> TRUE, files |-> currentFiles,
                          diff |-> currentDiff, ignoreAgentsMd |-> ignoreAgentsMd]

\* C16: a step whose filter returns an empty list or the unchanged list is
\* skipped: files, diff, token count and flag stay as they are and
\* getDiffForFiles is not called for it; the next step, if any, is tried next.
SkippedStepLeavesStateUntouched == [][SkipLeavesStateUntouched]_vars

\* the first step was skipped and the second one was then tried and applied
SecondStepAppliedAfterSkippedFirst ==
  /\ phase \in {"loop", "returned"}
  /\ estimateTokenCount(diff) > maxDiffTokens
  /\ Len(filterCalls) >= 2
  /\ Len(diffCalls) = 1
  /\ applyFilter(steps[1].filterFiles, changedFiles) \in {<<>>, changedFiles}

\* C17 (as stated): the current token count never increases from one step of
\* the loop to the next, whatever the steps and their filter functions.
TokenCountNeverIncreases ==
  [][phase = "loop" => currentTokens' <= currentTokens]_vars

\* C17 (amended): the current token count does not increase over a step whose
\* filter returned only files of the list it was given.
TokenCountNeverIncreasesUnderSubsetFilters ==
  [][(phase = "loop" /\ SeqRange(currentFiles') \subseteq SeqRange(currentFiles))
       => currentTokens' <= currentTokens]_vars

\* two steps were applied and each one lowered the token count
TwoStepsLoweredTokenCount ==
  /\ phase \in {"loop", "returned"}
  /\ Len(diffCalls) = 2
  /\ currentTokens < estimateTokenCount(getDiffForFiles(diffCalls[1]))
  /\ estimateTokenCount(getDiffForFiles(diffCalls[1])) < estimateTokenCount(diff)

\* C19: the loop runs only while the token count is over the budget, so once
\* an applied step meets the budget no later filter is invoked and that
\* step's files are returned; with 70 (thousand) tokens, a budget of 60 and
\* steps giving 65 and then 40, the second step's files are returned and the
\* third step is never invoked.
StopsAsSoonAsBudgetMet ==
  /\ phase = "loop" => currentTokens > maxDiffTokens
  /\ (phase = "returned" /\ diffCalls # <<>> /\ currentTokens <= maxDiffTokens) =>
       /\ result.files = diffCalls[Len(diffCalls)]
       /\ result.diff = getDiffForFiles(diffCalls[Len(diffCalls)])
       /\ filterCalls = [i \in 1..stepIndex |-> i]
       /\ ~isSkippedStep(result.files,
                         IF Len(diffCalls) = 1 THEN changedFiles
                         ELSE diffCalls[Len(diffCalls) - 1])
  /\ (/\ phase = "returned"
      /\ changedFiles = <<"src/a.ts", "src/a.test.ts", "docs/b.md">>
      /\ maxDiffTokens = 60
      /\ Len(steps) = 3
      /\ steps[1].filterFiles = "removeTests"
      /\ steps[2].filterFiles = "sourceOnly") =>
       /\ estimateTokenCount(diff) = 70
       /\ estimateTokenCount(getDiffForFiles(diffCalls[1])) = 65
       /\ currentTokens = 40
       /\ result.files = <<"src/a.ts">>
       /\ filterCalls = <<1, 2>>

\* the call of the example returned after its second step
ReturnedAfterSecondOfThreeSteps ==
  /\ phase = "returned"
  /\ Len(steps) = 3
  /\ estimateTokenCount(diff) = 70
  /\ maxDiffTokens = 60
  /\ filterCalls = <<1, 2>>
  /\ Len(diffCalls) = 2
  /\ currentTokens = 40

\* review.usage.totalTokens > 0
HasUsage(review) == taskOutcome[review.reviewerId] # "review-zero-usage"

\* the reviews createValidationPrompt puts into the validator's prompt
validatorPromptReviews == SelectSeq(validatorInput, HasUsage)

CheckerReview == IndividualReview(PreviousCheckerId)

\* C20 (as stated): a previous-review-checker result that says no issue is
\* left, or whose usage is zero, is not in the list of reviews handed to the
\* validator.
SentinelOrZeroUsageCheckExcluded ==
  (validatorCalls > 0
   /\ taskOutcome[PreviousCheckerId] \in {"no-unresolved-issues", "review-zero-usage"}) =>
    CheckerReview \notin SeqRange(validatorInput)

\* C20 (amended): a previous-review-checker result that says no issue is left
\* is in neither successfulReviews nor the list handed to the validator; one
\* whose usage is zero is in that list and is only left out of the validator's
\* prompt.
SentinelCheckExcludedZeroUsageOnlyFromPrompt ==
  /\ (Collected /\ taskOutcome[PreviousCheckerId] = "no-unresolved-issues") =>
       /\ CheckerReview \notin SeqRange(successfulReviews)
       /\ CheckerReview \notin SeqRange(validatorInput)
  /\ (validatorCalls > 0 /\ taskOutcome[PreviousCheckerId] = "review-zero-usage") =>
       /\ CheckerReview \in SeqRange(validatorInput)
       /\ CheckerReview \notin SeqRange(validatorPromptReviews)

\* the validator was called on a reviewer's review after the checker had
\* answered that no issue is left
ValidatorCalledWithoutSentinelCheck ==
  /\ validatorCalls > 0
  /\ taskOutcome[PreviousCheckerId] = "no-unresolved-issues"
  /\ validatorInput # <<>>

\* the tasks whose model call returned, the checker's "no issue left" answer included
ExecutedCallIds ==
  {id \in TaskIds : ReturnsReview(taskOutcome[id]) \/ taskOutcome[id] = "no-unresolved-issues"}

\* the field-wise sum of the usage of the calls of a set of tasks and of the
\* validator's call
RECURSIVE sumOfCalls(_)
sumOfCalls(ids) ==
  IF ids = {} THEN validatorUsage
  ELSE LET id == CHOOSE x \in ids : TRUE
           rest == sumOfCalls(ids \ {id})
           usage == reviewUsage(IndividualReview(id))
       IN [promptTokens |-> rest.promptTokens + usage.promptTokens,
           completionTokens |-> rest.completionTokens + usage.completionTokens,
           totalTokens |-> rest.totalTokens + usage.totalTokens,
           reasoningTokens |-> orZero(rest.reasoningTokens) + orZero(usage.reasoningTokens),
           model |-> "total"]

SameTokens(a, b) ==
  /\ a.promptTokens = b.promptTokens
  /\ a.completionTokens = b.completionTokens
  /\ a.totalTokens = b.totalTokens
  /\ orZero(a.reasoningTokens) = orZero(b.reasoningTokens)

\* C21 (as stated): the aggregated usage of a finished run is the field-wise
\* sum of the usage of every task whose model call was executed (reviewers,
\* the previous-review-checker when it ran) and of the validator.
TotalUsageSumsEveryExecutedCall ==
  outputWritten => SameTokens(totalUsage, sumOfCalls(ExecutedCallIds))

\* C21 (amended): the aggregated usage of a finished run is the field-wise sum
\* of the usage of the retained reviews and of the validator; a sum of zero
\* reasoning tokens is reported as undefined. Two retained reviewers and the
\* validator give the sum of exactly these three calls.
TotalUsageSumsRetainedReviews ==
  outputWritten =>
    /\ SameTokens(totalUsage, sumOfCalls(RetainedIds))
    /\ totalUsage.reasoningTokens # 0
    /\ totalUsage.model = "total"
    /\ RetainedIds = {1, 2} =>
         /\ totalUsage.promptTokens = 10 + 20 + validatorUsage.promptTokens
         /\ totalUsage.completionTokens = 1 + 2 + validatorUsage.completionTokens
         /\ totalUsage.totalTokens = 11 + 22 + validatorUsage.totalTokens

\* a run of two successful reviewers and the validator wrote its output
UsageOfThreeCallsSummed ==
  /\ outputWritten
  /\ RetainedIds = {1, 2}
  /\ ExecutedCallIds = {1, 2}
  /\ totalUsage.totalTokens > 33

\* how many times a task is held by the queues: waiting, running or settled
RECURSIVE Count(_, _)
Count(s, x) ==
  IF s = <<>> THEN 0 ELSE (IF Head(s) = x THEN 1 ELSE 0) + Count(Tail(s), x)

OccurrencesInQueue(q, id) ==
  Count(q.waiting, id) + (IF id \in q.running THEN 1 ELSE 0)
  + Count(CompletionIds(q), id) + Count(QueueFailureIds(q), id)

RECURSIVE OccurrencesIn(_, _)
OccurrencesIn(ps, id) ==
  IF ps = {} THEN 0
  ELSE LET p == CHOOSE x \in ps : TRUE
       IN OccurrencesInQueue(queues[p], id) + OccurrencesIn(ps \ {p}, id)

IsPrefix(s, t) == Len(s) <= Len(t) /\ SubSeq(t, 1, Len(s)) = s

\* a queue only moves tasks forward: waiting tasks are started, running tasks
\* settle, settled tasks stay in the list they are in
TaskNeverRestarted ==
  \A p \in DOMAIN queues :
    /\ SeqRange(queues'[p].waiting) \subseteq SeqRange(queues[p].waiting)
    /\ queues'[p].running \subseteq queues[p].running \cup SeqRange(queues[p].waiting)
    /\ IsPrefix(queues[p].completions, queues'[p].completions)
    /\ IsPrefix(queues[p].failures, queues'[p].failures)

TaskHeldOnce == \A id \in Submitted : OccurrencesIn(DOMAIN queues, id) = 1

\* C22: no task is retried: a task that has left Queued never returns to it, a
\* Completed or Failed task stays as it is, and every submitted task is held
\* exactly once by the queues, so its function is started at most once.
TasksNeverRetried == [][TaskNeverRestarted]_vars /\ []TaskHeldOnce

\* a task failed and the run went on to the validator without running it again
FailedTaskLeftFailedAtValidator ==
  /\ validatorCalls > 0
  /\ \E id \in Submitted : TaskStatus(id) = "Failed" /\ taskOutcome[id] = "threw"

\* ------------------------------------------------------------------------
\* C23: once the cancellation signal has fired while a review task or the
\* validator was in flight, the run produces no ValidatedReview.
InterruptedRunProducesNoValidatedReview ==
  (globalAbortSignal.aborted /\ globalAbortSignal.callsInFlight) =>
    ~validatedReview.produced

\* ------------------------------------------------------------------------
\* C24: within each of critical, possible and suggestion the issues are
\* numbered 1..k (C, P, S) in the order they have in the review's issue list,
\* and the same review always gets the same numbering.
CategoryLetter == [critical |-> "C", possible |-> "P", suggestion |-> "S"]

\* the number of issues of issue i's category among the first i issues
RankInCategory(issues, i) ==
  Cardinality({m \in 1..i : issues[m].category = issues[i].category})

NumberedPerCategoryInListOrder(issues, blocks) ==
  /\ \A category \in DOMAIN CategoryLetter :
       LET positions == {i \in 1..Len(issues) : issues[i].category = category}
           numbers == {blocks[j].issueId.number :
                         j \in {n \in 1..Len(blocks) :
                                  blocks[n].issueId.letter = CategoryLetter[category]}}
       IN /\ numbers = 1..Cardinality(positions)
          /\ \A i \in positions :
               \E j \in 1..Len(blocks) :
                 /\ blocks[j].issue = issues[i]
                 /\ blocks[j].issueId = [letter |-> CategoryLetter[category],
                                          number |-> RankInCategory(issues, i)]
  /\ Len(blocks) = Cardinality({i \in 1..Len(issues) :
                                  issues[i].category \in DOMAIN CategoryLetter})
  /\ \A j, n \in 1..Len(blocks) : blocks[j].issueId = blocks[n].issueId => j = n

IssueNumberingPerCategoryAndStable ==
  /\ \A c \in 1..Len(markdowns) :
       NumberedPerCategoryInListOrder(reviewIssues, markdowns[c])
  /\ \A c, e \in 1..Len(markdowns) : markdowns[c] = markdowns[e]

\* formatted twice: a possible issue between two critical ones
InterleavedCategoriesNumbered ==
  /\ Len(markdowns) = 2
  /\ Len(reviewIssues) = 3
  /\ reviewIssues[1] = [category |-> "critical", description |-> "x"]
  /\ reviewIssues[2].category = "possible"
  /\ reviewIssues[3] = [category |-> "critical", description |-> "y"]
  /\ markdowns[1][2] = [issueId |-> [letter |-> "C", number |-> 2],
                         issue |-> reviewIssues[3]]

\* ------------------------------------------------------------------------
\* C25: a partition's ceiling is unbounded when no concurrency is configured,
\* the configured number when a single number is configured, and with a
\* per-provider map the provider's own entry, unbounded if it has none.
EntriesOf(providerId) ==
  {i \in 1..Len(concurrencyPerProvider.entries) :
     concurrencyPerProvider.entries[i].providerId = providerId}

CeilingFollowsConfiguration ==
  \A p \in DOMAIN queues :
    /\ concurrencyPerProvider.kind = "undefined" => queues[p].concurrency = Infinity
    /\ concurrencyPerProvider.kind = "number" =>
         queues[p].concurrency = concurrencyPerProvider.value
    /\ concurrencyPerProvider.kind = "map" =>
         /\ EntriesOf(p) = {} => queues[p].concurrency = Infinity
         /\ \A i \in EntriesOf(p) :
              queues[p].concurrency = concurrencyPerProvider.entries[i].limit

\* a map with an entry for openai only: its partition is bounded by the entry,
\* the partition of the unlisted provider is unbounded
MapCeilingsOfListedAndUnlistedProvider ==
  /\ concurrencyPerProvider.kind = "map"
  /\ DOMAIN queues = {"openai", "unknown"}
  /\ queues["openai"].concurrency = IntLimit(1)
  /\ queues["unknown"].concurrency = Infinity

\* ------------------------------------------------------------------------
\* C26: a run whose filtered diff is blank makes no reviewer, checker or
\* validator call, and once it has looked at the diff it has emitted a review
\* without issues and with zero token usage. (The diff is fetched after the
\* configuration was validated: a run stopped there has no diff.)
NoModelCallMade ==
  /\ reviewersByProvider = <<>>
  /\ queues = EmptyMap
  /\ \A id \in TaskIds : taskOutcome[id] = "none"
  /\ validatorCalls = 0
  /\ validatorResult.status = "none"

EmptyReviewEmitted ==
  /\ pc = "done"
  /\ outputWritten
  /\ validatedReview = [produced |-> TRUE, issues |-> <<>>]
  /\ totalUsage.promptTokens = 0
  /\ totalUsage.completionTokens = 0
  /\ totalUsage.totalTokens = 0
  /\ orZero(totalUsage.reasoningTokens) = 0

BlankDiffMakesNoCallAndEmitsEmptyReview ==
  prDiffBlank =>
    /\ NoModelCallMade
    /\ pc = "exited" => exitMessage = ConfigErrorMessage
    /\ pc \notin {"start", "diffCheck", "exited"} => EmptyReviewEmitted

\* a gh-actions run with two reviewers and a checker to dispatch has returned
\* on a blank diff
BlankDiffReturnedWithReviewersConfigured ==
  /\ prDiffBlank
  /\ pc = "done"
  /\ outputWritten
  /\ Len(setupConfig.reviewers) = 2
  /\ shouldRunPreviousCheck

\* ------------------------------------------------------------------------
\* C27: review-pr adds a previous-review-checker task only in gh-actions mode
\* without --skip-previous-check; in test mode or with the flag none is ever
\* dispatched, and a run never has more than one.
PreviousCheckPartitions ==
  {i \in 1..Len(reviewersByProvider) :
     PreviousCheckerId \in SeqRange(reviewersByProvider[i].reviewers)}

PreviousCheckQueues ==
  {p \in DOMAIN queues : OccurrencesInQueue(queues[p], PreviousCheckerId) > 0}

PreviousCheckNeverDispatched ==
  /\ PreviousCheckPartitions = {}
  /\ PreviousCheckQueues = {}
  /\ taskOutcome[PreviousCheckerId] = "none"

PreviousCheckOnlyInGhActionsAndOnce ==
  /\ Cardinality(PreviousCheckPartitions) <= 1
  /\ \A i \in PreviousCheckPartitions :
       Count(reviewersByProvider[i].reviewers, PreviousCheckerId) = 1
  /\ Cardinality(PreviousCheckQueues) <= 1
  /\ \A p \in PreviousCheckQueues : OccurrencesInQueue(queues[p], PreviousCheckerId) = 1
  /\ PreviousCheckPartitions # {} =>
       command = "review-pr" /\ mode = "gh-actions" /\ ~args.skipPreviousCheck
  /\ (mode = "test" \/ args.skipPreviousCheck) => PreviousCheckNeverDispatched

\* a run in GitHub Actions with --skip-previous-check has reached the validator
\* without a checker task
FlaggedRunValidatedWithoutChecker ==
  /\ command = "review-pr"
  /\ isGitHubActions
  /\ args.skipPreviousCheck
  /\ pc = "validating"
  /\ PreviousCheckNeverDispatched

\* ------------------------------------------------------------------------
\* C28: a task goes Queued -> Running -> Completed or Failed: it becomes
\* terminal only from Running and Running only from Queued, a terminal task
\* stays in its terminal state, and a partition is active (its queue is not
\* idle) exactly while one of its tasks is not terminal.
CompletedIn(q) == SeqRange(CompletionIds(q))

FailedIn(q) == SeqRange(QueueFailureIds(q))

TaskStepFollowsStateMachine ==
  /\ \A p \in DOMAIN queues :
       /\ (CompletedIn(queues'[p]) \cup FailedIn(queues'[p]))
             \ (CompletedIn(queues[p]) \cup FailedIn(queues[p]))
           \subseteq queues[p].running
       /\ queues'[p].running \ queues[p].running \subseteq SeqRange(queues[p].waiting)
       /\ SeqRange(queues'[p].waiting) \subseteq SeqRange(queues[p].waiting)
       /\ CompletedIn(queues[p]) \subseteq CompletedIn(queues'[p])
       /\ FailedIn(queues[p]) \subseteq FailedIn(queues'[p])
  /\ \A p \in DOMAIN queues' \ DOMAIN queues :
       CompletedIn(queues'[p]) \cup FailedIn(queues'[p]) = {}

PartitionActiveWhileTaskNonTerminal ==
  /\ \A p \in DOMAIN queues :
       /\ ~queueIsIdle(queues[p]) <=>
            \E id \in SubmittedTo(p) : id \notin CompletedIn(queues[p]) \cup FailedIn(queues[p])
       /\ CompletedIn(queues[p]) \cap FailedIn(queues[p]) = {}
  /\ \A id \in Submitted : TaskStatus(id) \in {"Queued", "Running", "Completed", "Failed"}

TasksFollowStateMachine ==
  [][TaskStepFollowsStateMachine]_vars /\ []PartitionActiveWhileTaskNonTerminal

\* a partition with a ceiling holds a settled, a running and a waiting task
PartitionActiveWithTaskInEveryState ==
  \E p \in DOMAIN queues :
    /\ CompletedIn(queues[p]) \cup FailedIn(queues[p]) # {}
    /\ queues[p].running # {}
    /\ queues[p].waiting # <<>>

\* ------------------------------------------------------------------------
\* C29: the validator is called at most once in a run and only after the gate
\* has passed; the reviews it is called with are exactly the retained
\* successes, each once, and none of a task that failed or returned null.
GatePassed ==
  /\ queues # EmptyMap
  /\ DOMAIN queueResults = DOMAIN queues
  /\ successfulReviews # <<>>
  /\ pc \in {"validating", "output", "done", "rejected"}

ValidatorCalledOnceAfterGateOnRetained ==
  /\ validatorCalls <= 1
  /\ validatorCalls = 0 => (validatorInput = <<>> /\ validatorResult.status = "none")
  /\ validatorCalls = 1 =>
       /\ GatePassed
       /\ \A id \in RetainedIds : Count(validatorInput, IndividualReview(id)) = 1
       /\ \A i \in 1..Len(validatorInput) :
            /\ validatorInput[i].kind = "review"
            /\ validatorInput[i].reviewerId \in RetainedIds
            /\ taskOutcome[validatorInput[i].reviewerId]
                 \notin {"threw", "no-previous-review", "model-error", "no-unresolved-issues"}

\* the validator was called with one review while a reviewer had failed and
\* the checker had returned null
ValidatorCalledWithoutFailedAndNullTask ==
  /\ validatorCalls = 1
  /\ Len(setupConfig.reviewers) = 2
  /\ Len(validatorInput) = 1
  /\ \E id \in 1..2 : taskOutcome[id] = "threw"
  /\ taskOutcome[PreviousCheckerId] = "no-unresolved-issues"

\* ------------------------------------------------------------------------
\* C30: the fan-out makes one task per configured reviewer and puts it into
\* one partition, that of its model's provider; the previous-review-checker
\* goes into the partition of the validator's provider, is held by that
\* partition's queue and runs within its ceiling like a reviewer.
PartitionsOf(id) ==
  {i \in 1..Len(reviewersByProvider) : id \in SeqRange(reviewersByProvider[i].reviewers)}

HeldBy(q) == SeqRange(q.waiting) \cup q.running \cup CompletedIn(q) \cup FailedIn(q)

PlacedOnceIn(id, providerId) ==
  /\ Cardinality(PartitionsOf(id)) = 1
  /\ \A i \in PartitionsOf(id) :
       /\ reviewersByProvider[i].providerId = providerId
       /\ Count(reviewersByProvider[i].reviewers, id) = 1
  /\ providerId \in DOMAIN queues
  /\ \A p \in DOMAIN queues : id \in HeldBy(queues[p]) <=> p = providerId

FanOutOneTaskPerReviewerInItsProviderPartition ==
  queues # EmptyMap =>
    /\ \A id \in 1..Len(setupConfig.reviewers) :
         PlacedOnceIn(id, getModelProviderId(setupConfig.reviewers[id]))
    /\ \A i \in 1..Len(reviewersByProvider) :
         /\ reviewersByProvider[i].reviewers # <<>>
         /\ SeqRange(reviewersByProvider[i].reviewers)
              \subseteq (1..Len(setupConfig.reviewers)) \cup {PreviousCheckerId}
         /\ \A j \in 1..Len(reviewersByProvider) :
              reviewersByProvider[i].providerId = reviewersByProvider[j].providerId => i = j
    /\ PartitionsOf(PreviousCheckerId) # {} =>
         LET p == getModelProviderId(setupConfig.validator)
         IN /\ PlacedOnceIn(PreviousCheckerId, p)
            /\ queues[p].concurrency = resolveProviderConcurrency(concurrencyPerProvider, p)
            /\ (queues[p].concurrency.kind = "int" /\ PreviousCheckerId \in queues[p].running) =>
                 Cardinality(queues[p].running) <= queues[p].concurrency.n

\* the checker waits in the validator's partition behind a reviewer of the
\* same provider that fills the ceiling of one, the other reviewer being in
\* another partition
CheckerWaitsForCeilingOfValidatorPartition ==
  /\ Len(setupConfig.reviewers) = 2
  /\ Cardinality(DOMAIN queues) = 2
  /\ \E p \in DOMAIN queues :
       /\ p = getModelProviderId(setupConfig.validator)
       /\ queues[p].concurrency = IntLimit(1)
       /\ PreviousCheckerId \in SeqRange(queues[p].waiting)
       /\ queues[p].running # {}

\* ------------------------------------------------------------------------
\* C31: a task waits only for its own partition: whenever a task is queued, the
\* queue of its provider is at its ceiling, whatever the state of the other
\* queues, so no partition holds back a task of another one.
HasFreeCapacity(q) ==
  q.concurrency.kind = "inf" \/ Cardinality(q.running) < q.concurrency.n

TaskWaitsOnlyForOwnPartition ==
  \A p \in DOMAIN queues : queues[p].waiting # <<>> => ~HasFreeCapacity(queues[p])

\* two partitions with a ceiling of one each have a task running at the same
\* time, one of them with a task queued behind it
TwoPartitionsRunningAtCeilingOne ==
  /\ Cardinality(DOMAIN queues) = 2
  /\ \A p \in DOMAIN queues :
       /\ queues[p].concurrency = IntLimit(1)
       /\ Cardinality(queues[p].running) = 1
  /\ \E p \in DOMAIN queues : queues[p].waiting # <<>>

\* ------------------------------------------------------------------------
\* C32: a task that completes or fails changes the completion and failure
\* lists of its own partition only, by one entry appended at the end; the
\* lists of the other partitions, and the results already handed over, stay
\* as they are, and no task is in the lists of a queue twice.
ListsOf(q) == <<q.completions, q.failures>>

SettlingChangesOwnListsOnly ==
  /\ \A p \in DOMAIN queues :
       ListsOf(queues'[p]) # ListsOf(queues[p]) =>
         /\ \A r \in DOMAIN queues \ {p} : queues'[r] = queues[r]
         /\ IsPrefix(queues[p].completions, queues'[p].completions)
         /\ IsPrefix(queues[p].failures, queues'[p].failures)
         /\ Len(queues'[p].completions) + Len(queues'[p].failures)
              = Len(queues[p].completions) + Len(queues[p].failures) + 1
  /\ \A p \in DOMAIN queueResults : queueResults'[p] = queueResults[p]

SettledOnceInOwnLists ==
  \A p \in DOMAIN queues :
    /\ NoDuplicates(CompletionIds(queues[p]) \o QueueFailureIds(queues[p]))
    /\ SeqRange(CompletionIds(queues[p]) \o QueueFailureIds(queues[p])) \subseteq SubmittedTo(p)

SettlingIsLocalToPartition ==
  [][SettlingChangesOwnListsOnly]_vars /\ []SettledOnceInOwnLists

\* two partitions have each settled a task, one by a completion and one by a
\* failure
CompletionAndFailureInDifferentPartitions ==
  \E p, r \in DOMAIN queues :
    /\ p # r
    /\ Len(queues[p].completions) = 1
    /\ queues[p].failures = <<>>
    /\ Len(queues[r].failures) = 1
    /\ queues[r].completions = <<>>

\* ------------------------------------------------------------------------
\* C33: when every started task settles and the scheduling is fair, every
\* queued task is started, every partition becomes idle, and the run reaches
\* the gate, where it exits or goes on to the validator.
AtGate ==
  \/ pc = "exited" /\ exitMessage = AllReviewersFailedMessage
  \/ pc \in {"humanComments", "validating"}

\* a task leaves the waiting list of its queue only by being started
QueuedLeavesOnlyToRunning ==
  \A p \in DOMAIN queues :
    SeqRange(queues[p].waiting) \ SeqRange(queues'[p].waiting) \subseteq queues'[p].running

\* every submitted task was started and has settled, every queue is idle and
\* run() is at the gate
AllSettledAndIdleAtGate ==
  /\ AtGate
  /\ \A p \in DOMAIN queues : queueIsIdle(queues[p])
  /\ \A id \in Submitted : TaskStatus(id) \in {"Completed", "Failed"}

DispatchedRunReachesGate ==
  [][QueuedLeavesOnlyToRunning]_vars /\ <>AllSettledAndIdleAtGate

\* the gate was reached after the tasks of a partition had run one at a time
GateReachedAfterQueuedTasksRan ==
  /\ AtGate
  /\ \E p \in DOMAIN queues :
       /\ queues[p].concurrency = IntLimit(1)
       /\ Len(queues[p].completions) + Len(queues[p].failures) >= 2
       /\ queueIsIdle(queues[p])

\* ------------------------------------------------------------------------
\* C34: the returned ignoreAgentsMd flag is true exactly when an applied step
\* asked for it: the flag is false until a step is applied, an applied step
\* that asks for it sets it, nothing else changes it, and the function returns
\* it as it stands; a skipped step that asks for it leaves it alone.
StepIsApplied == phase = "loop" /\ Len(diffCalls') = Len(diffCalls) + 1

FlagFollowsAppliedSteps ==
  /\ ignoreAgentsMd' # ignoreAgentsMd =>
       (StepIsApplied /\ steps[stepIndex].ignoreAgentsMd /\ ignoreAgentsMd')
  /\ (StepIsApplied /\ steps[stepIndex].ignoreAgentsMd) => ignoreAgentsMd'

FlagAsAccumulated ==
  /\ diffCalls = <<>> => ~ignoreAgentsMd
  /\ result.returned => result.ignoreAgentsMd = ignoreAgentsMd

FlagSetByAppliedStepsOnly ==
  [][FlagFollowsAppliedSteps]_vars /\ []FlagAsAccumulated

\* returned without the flag after a step was applied, although a skipped step
\* had asked for it
SkippedRequestLeftFlagUnset ==
  /\ result.returned
  /\ ~result.ignoreAgentsMd
  /\ Len(diffCalls) = 1
  /\ Len(filterCalls) >= 2
  /\ \E i \in SeqRange(filterCalls) : steps[i].ignoreAgentsMd

\* ------------------------------------------------------------------------
\* C35 (as stated): a step is skipped only if its filtered list is empty or
\* has the length and the members of the current file list; a filtered list
\* of the same length with other members is applied.
StepIsSkipped == phase = "loop" /\ Len(diffCalls') = Len(diffCalls)

SkippedStepFilteredNothing ==
  StepIsSkipped =>
    LET filteredFiles == applyFilter(steps[stepIndex].filterFiles, currentFiles)
    IN \/ filteredFiles = <<>>
       \/ /\ Len(filteredFiles) = Len(currentFiles)
          /\ SeqRange(filteredFiles) = SeqRange(currentFiles)

SkippedOnlyWhenEmptyOrIdentical == [][SkippedStepFilteredNothing]_vars

\* ------------------------------------------------------------------------
\* C36: compactDiff never edits diff text.  Whenever it has returned, the
\* files and the diff of the result belong together: with no step applied
\* they are the input file list and the input diff, otherwise they are the
\* file list of the last applied step and the diff getDiffForFiles returned
\* for that list.
LastDiffCall == diffCalls[Len(diffCalls)]

ReturnedPairIsInputOrLastProvided ==
  result.returned =>
    IF diffCalls = <<>>
    THEN result.files = changedFiles /\ result.diff = diff
    ELSE result.files = LastDiffCall /\ result.diff = getDiffForFiles(LastDiffCall)

\* witness: two steps were applied and the result is still over the budget,
\* returned with the whole diff of the last list
OverBudgetDiffReturnedWhole ==
  /\ result.returned
  /\ Len(diffCalls) >= 2
  /\ estimateTokenCount(result.diff) > maxDiffTokens
  /\ result.diff # {}

\* ------------------------------------------------------------------------
\* C37: compactDiff applies its steps cumulatively.  The filter of a step is
\* given the file list the last applied step left (the input list while no
\* step has been applied), so the step is skipped or applied according to
\* the filter's answer on that list and an applied step leaves that answer;
\* the list the loop holds is that list; and a call with a non-empty file
\* list never returns an empty one.
ListLeft == IF diffCalls = <<>> THEN changedFiles ELSE LastDiffCall

StepFiltersListLeft ==
  phase = "loop" =>
    LET filteredFiles == applyFilter(steps[stepIndex].filterFiles, ListLeft)
    IN diffCalls' = IF isSkippedStep(filteredFiles, ListLeft)
                    THEN diffCalls
                    ELSE Append(diffCalls, filteredFiles)

HoldsListLeft == phase = "loop" => currentFiles = ListLeft

NonEmptyInputReturnsNonEmpty ==
  (result.returned /\ changedFiles # <<>>) => result.files # <<>>

StepsApplyCumulatively ==
  /\ [][StepFiltersListLeft]_vars
  /\ []HoldsListLeft
  /\ []NonEmptyInputReturnsNonEmpty

\* witness: the second step was applied to what the first left, which is not
\* what its filter gives on the input list, and a third step that filtered
\* every file out was skipped, leaving the returned list non-empty
SecondStepFilteredFirstStepsList ==
  /\ result.returned
  /\ Len(filterCalls) = 3
  /\ Len(diffCalls) = 2
  /\ diffCalls[2] = applyFilter(steps[2].filterFiles, diffCalls[1])
  /\ diffCalls[2] # applyFilter(steps[2].filterFiles, changedFiles)
  /\ applyFilter(steps[3].filterFiles, diffCalls[2]) = <<>>
  /\ result.files = diffCalls[2]

\* ------------------------------------------------------------------------
\* C38: in review-pr a failure to fetch the human discussion comments never
\* fails the run and never prevents validation.  After a failed fetch the
\* validator has been invoked once, with the retained reviews and with no
\* human comments; the run rejects only if the validator itself failed, and
\* otherwise goes on to the validated review and the output.
FetchFailed == GatePassed /\ humanComments = "undefined"

SameSums(a, b) ==
  /\ a.promptTokens = b.promptTokens
  /\ a.completionTokens = b.completionTokens
  /\ a.totalTokens = b.totalTokens
  /\ a.reasoningTokens = b.reasoningTokens

SumsIndependentOfOrderAndZeroUsage ==
  usageSums.summed =>
    /\ usageSums.total = calculateTotalUsage(usageList)
    /\ usageSums.log = sumUsage(usageList)
    /\ SameSums(usageSums.reviews, calculateReviewsUsage(usageList))
    /\ summedUsages = <<>> =>
         /\ SameTokens(usageSums.total, createZeroTokenUsage("none"))
         /\ SameTokens(usageSums.reviews, createZeroTokenUsage("none"))
         /\ SameTokens(usageSums.log, createZeroTokenUsage("none"))

\* witness: two different usages were summed in the other order with a zero
\* usage between them, and the sum is the sum of the two
TwoUsagesSummedReversedAroundZero ==
  /\ usageSums.summed
  /\ Len(usageList) = 2
  /\ usageList[1].promptTokens > usageList[2].promptTokens
  /\ usageList[2].promptTokens > 0
  /\ summedUsages = <<usageList[2], createZeroTokenUsage("none"), usageList[1]>>
  /\ usageSums.total.promptTokens = usageList[1].promptTokens + usageList[2].promptTokens
  /\ usageSums.total.reasoningTokens = 2
====
